---- MODULE Spec2Model ----
(***************************************************************************)
(* Model of the workspace / project store, the undo-redo history and the   *)
(* card order engine of quadro-de-avaliacao.                               *)
(*                                                                         *)
(* Strings are sequences of atoms: an atom is a word (letters and digits)  *)
(* or a separator character (" ", "-", "/").  The empty string is << >>.   *)
(* Opaque ids produced by crypto.randomUUID() are fresh naturals.          *)
(***************************************************************************)
EXTENDS Integers, Sequences, FiniteSets, TLC

VARIABLES workspace, undoStack, redoStack, isStructureEditMode, projectDraft,
          storage, now, idCounter, lastOp, hist,
          mv

vars == <<workspace, undoStack, redoStack, isStructureEditMode, projectDraft,
          storage, now, idCounter, lastOp, hist,
          mv>>

appVars == <<workspace, undoStack, redoStack, isStructureEditMode,
             projectDraft, storage, now, idCounter, lastOp, hist>>

-----------------------------------------------------------------------------
(* Bounds of the exploration.                                              *)

MaxClock == 6
BroadDepth == 2
ProjectsDepth == 3
StructureDepth == 3
MaxProjects == 3
MaxCards == 2
MaxSlotRow == 1
MaxSlotCol == 2
MaxMoveCards == 3
MaxOrderCards == 3
MaxOrderList == 3
MaxTemplateColumns == 3
MaxTemplateLayers == 2

-----------------------------------------------------------------------------
(* Generic sequence helpers.                                               *)

\* const name = value; body: the value is computed once and the body reads it.
With(value, Body(_)) == Body(value)

Range(s) == {s[i] : i \in DOMAIN s}

Max2(a, b) == IF a >= b THEN a ELSE b

Min2(a, b) == IF a <= b THEN a ELSE b

\* Array.prototype.findIndex, 1-based; 0 when nothing matches (JS: -1).
FindIndex(s, Test(_)) ==
  IF \E i \in DOMAIN s : Test(s[i])
  THEN CHOOSE i \in DOMAIN s : Test(s[i]) /\ \A j \in 1..(i - 1) : ~Test(s[j])
  ELSE 0

\* Array.prototype.splice(index, 0, item) with a 0-based index.
InsertAt(s, idx0, item) ==
  SubSeq(s, 1, idx0) \o <<item>> \o SubSeq(s, idx0 + 1, Len(s))

\* Array.prototype.splice(index, 1) with a 1-based index.
RemoveAt(s, i) == SubSeq(s, 1, i - 1) \o SubSeq(s, i + 1, Len(s))

-----------------------------------------------------------------------------
(* Strings.                                                                *)

Separators == {" ", "-", "/"}

EmptyStr == << >>

\* String.prototype.toLowerCase followed by normalize('NFD') and the removal
\* of combining marks, on one word atom.
LowerAscii(atom) ==
  CASE atom = "Projeto" -> "projeto"
    [] atom = "Nova" -> "nova"
    [] atom = "Partes" -> "partes"
    [] atom = "Interessadas" -> "interessadas"
    [] atom = "Questões" -> "questoes"
    [] atom = "Problemas" -> "problemas"
    [] atom = "Ideias" -> "ideias"
    [] atom = "Soluções" -> "solucoes"
    [] atom = "Informal" -> "informal"
    [] atom = "Formal" -> "formal"
    [] atom = "Técnico" -> "tecnico"
    [] atom = "Modelo" -> "modelo"
    [] atom = "A" -> "a"
    [] atom = "B" -> "b"
    [] OTHER -> atom

RECURSIVE TrimStart(_)
TrimStart(s) ==
  IF s = << >> THEN << >>
  ELSE IF Head(s) = " " THEN TrimStart(Tail(s)) ELSE s

RECURSIVE TrimEnd(_)
TrimEnd(s) ==
  IF s = << >> THEN << >>
  ELSE IF s[Len(s)] = " " THEN TrimEnd(SubSeq(s, 1, Len(s) - 1)) ELSE s

\* String.prototype.trim
Trim(s) == TrimEnd(TrimStart(s))

\* replace(/[^a-z0-9]+/g, '-'): every maximal run of separators becomes "-".
RECURSIVE CollapseSeparators(_)
CollapseSeparators(s) ==
  IF s = << >> THEN << >>
  ELSE IF Head(s) \in Separators
       THEN IF Len(s) > 1 /\ s[2] \in Separators
            THEN CollapseSeparators(Tail(s))
            ELSE <<"-">> \o CollapseSeparators(Tail(s))
       ELSE <<LowerAscii(Head(s))>> \o CollapseSeparators(Tail(s))

RECURSIVE StripHyphensStart(_)
StripHyphensStart(s) ==
  IF s = << >> THEN << >>
  ELSE IF Head(s) = "-" THEN StripHyphensStart(Tail(s)) ELSE s

RECURSIVE StripHyphensEnd(_)
StripHyphensEnd(s) ==
  IF s = << >> THEN << >>
  ELSE IF s[Len(s)] = "-" THEN StripHyphensEnd(SubSeq(s, 1, Len(s) - 1))
       ELSE s

slugify(value, fallback) ==
  With(StripHyphensEnd(StripHyphensStart(CollapseSeparators(Trim(value)))),
       LAMBDA normalized :
         IF normalized = << >> THEN fallback ELSE normalized)

-----------------------------------------------------------------------------
(* Optional values: the result of a function that may return null.         *)

None == [ok |-> FALSE]

Some(v) == [ok |-> TRUE, value |-> v]

-----------------------------------------------------------------------------
(* Template model (types/board.ts, lib/boardStorage.ts).                   *)

POST_IT_COLORS == {"yellow", "pink", "blue", "green", "orange", "purple"}

DEFAULT_POST_IT_COLOR == "yellow"

CLASSIC_BOARD_TEMPLATE_ID == <<"classic", "-", "3x3">>

CLASSIC_BOARD_TEMPLATE ==
  [id |-> CLASSIC_BOARD_TEMPLATE_ID,
   name |-> <<"Quadro", " ", "clássico", " ", "(3x3)">>,
   columns |-> <<[id |-> <<"stakeholders">>,
                  label |-> <<"Partes", " ", "Interessadas">>],
                 [id |-> <<"issues">>,
                  label |-> <<"Questões", " ", "/", " ", "Problemas">>],
                 [id |-> <<"ideas">>,
                  label |-> <<"Ideias", " ", "/", " ", "Soluções">>]>>,
   layers |-> <<[id |-> <<"informal">>, label |-> <<"Informal">>,
                 description |->
                   <<"Aspectos sociais e culturais observados no território.">>],
                [id |-> <<"formal">>, label |-> <<"Formal">>,
                 description |->
                   <<"Processos institucionais, normas e práticas organizadas.">>],
                [id |-> <<"technical">>, label |-> <<"Técnico">>,
                 description |->
                   <<"Infraestrutura, recursos e requisitos técnicos envolvidos.">>]>>]

BUILTIN_BOARD_TEMPLATES == <<CLASSIC_BOARD_TEMPLATE>>

DefaultTemplateName == <<"Modelo", " ", "personalizado">>

DefaultProjectName == <<"Projeto", " ", "sem", " ", "nome">>

cloneTemplate(template) ==
  [template EXCEPT
     !.columns = [i \in DOMAIN template.columns |-> template.columns[i]],
     !.layers = [i \in DOMAIN template.layers |-> template.layers[i]]]

\* The map/filter over candidate.columns: entries that are not objects or
\* have no label (records without the field) or a blank label are dropped,
\* the id is the slug of the id (or of the label when there is none)
\* with the positional fallback column-<index+1>.
RECURSIVE normalizeColumnsFrom(_, _)
normalizeColumnsFrom(columns, i) ==
  IF i > Len(columns) THEN << >>
  ELSE With(IF "label" \in DOMAIN columns[i] THEN Trim(columns[i].label)
            ELSE EmptyStr,
            LAMBDA label :
         (IF label = EmptyStr THEN << >>
          ELSE <<[id |-> slugify(IF "id" \in DOMAIN columns[i]
                                 THEN columns[i].id ELSE label,
                                 <<"column", "-", ToString(i)>>),
                  label |-> label]>>)
         \o normalizeColumnsFrom(columns, i + 1))

RECURSIVE normalizeLayersFrom(_, _)
normalizeLayersFrom(layers, i) ==
  IF i > Len(layers) THEN << >>
  ELSE With(IF "label" \in DOMAIN layers[i] THEN Trim(layers[i].label)
            ELSE EmptyStr,
            LAMBDA label :
         (IF label = EmptyStr THEN << >>
          ELSE <<[id |-> slugify(IF "id" \in DOMAIN layers[i]
                                 THEN layers[i].id ELSE label,
                                 <<"layer", "-", ToString(i)>>),
                  label |-> label,
                  description |-> IF "description" \in DOMAIN layers[i]
                                  THEN Trim(layers[i].description)
                                  ELSE EmptyStr]>>)
         \o normalizeLayersFrom(layers, i + 1))

\* dedupeById keeping every entry.
dedupeByIdKeepingAll(entries, seen) == entries

\* filter with a Set of seen ids: the first entry of every id is kept.
RECURSIVE dedupeById(_, _)
dedupeById(entries, seen) ==
  IF entries = << >> THEN << >>
  ELSE IF Head(entries).id \in seen
       THEN dedupeById(Tail(entries), seen)
       ELSE <<Head(entries)>>
            \o dedupeById(Tail(entries), seen \cup {Head(entries).id})

\* template is None (not an object) or Some(candidate) with id, name, columns
\* and layers of the right types.
normalizeTemplate(template) ==
  IF ~template.ok THEN None
  ELSE
    With(normalizeColumnsFrom(template.value.columns, 1),
         LAMBDA normalizedColumns :
    With(normalizeLayersFrom(template.value.layers, 1),
         LAMBDA normalizedLayers :
      IF Len(normalizedColumns) = 0 \/ Len(normalizedLayers) = 0
      THEN None
      ELSE
        With(dedupeById(normalizedColumns, {}), LAMBDA dedupedColumns :
        With(dedupeById(normalizedLayers, {}), LAMBDA dedupedLayers :
        With(Trim(template.value.name), LAMBDA trimmedName :
          IF Len(dedupedColumns) = 0 \/ Len(dedupedLayers) = 0
          THEN None
          ELSE Some([id |-> slugify(template.value.id,
                                    CLASSIC_BOARD_TEMPLATE_ID),
                     name |-> IF trimmedName = EmptyStr
                              THEN DefaultTemplateName ELSE trimmedName,
                     columns |-> dedupedColumns,
                     layers |-> dedupedLayers])))))) 

getBuiltInTemplates == [i \in DOMAIN BUILTIN_BOARD_TEMPLATES |->
                          cloneTemplate(BUILTIN_BOARD_TEMPLATES[i])]

RECURSIVE labelColumnsFrom(_, _)
labelColumnsFrom(labels, i) ==
  IF i > Len(labels) THEN << >>
  ELSE <<[id |-> slugify(labels[i], <<"column", "-", ToString(i)>>),
          label |-> labels[i]]>>
       \o labelColumnsFrom(labels, i + 1)

RECURSIVE labelLayersFrom(_, _)
labelLayersFrom(layers, i) ==
  IF i > Len(layers) THEN << >>
  ELSE <<[id |-> slugify(layers[i].label, <<"layer", "-", ToString(i)>>),
          label |-> layers[i].label,
          description |-> layers[i].description]>>
       \o labelLayersFrom(layers, i + 1)

\* uuid is the value createId() returns for the template id.
createCustomTemplate(name, columns, layers, uuid) ==
  With(Trim(name), LAMBDA trimmedName :
  With(normalizeTemplate(Some(
         [id |-> <<"custom", "-", ToString(uuid)>>,
          name |-> IF trimmedName = EmptyStr
                   THEN DefaultTemplateName ELSE trimmedName,
          columns |->
            labelColumnsFrom(
              SelectSeq([i \in DOMAIN columns |-> Trim(columns[i])],
                        LAMBDA l : l # EmptyStr),
              1),
          layers |->
            labelLayersFrom(
              SelectSeq([i \in DOMAIN layers |->
                           [label |-> Trim(layers[i].label),
                            description |-> Trim(layers[i].description)]],
                        LAMBDA l : Len(l.label) > 0),
              1)])),
       LAMBDA candidate :
         IF candidate.ok THEN Some(cloneTemplate(candidate.value))
         ELSE None))

ColumnIds(template) == {template.columns[i].id : i \in DOMAIN template.columns}

LayerIds(template) == {template.layers[i].id : i \in DOMAIN template.layers}

createInitialBoard(template) ==
  With(cloneTemplate(template), LAMBDA safeTemplate :
    [i \in DOMAIN safeTemplate.layers |->
       [layerId |-> safeTemplate.layers[i].id,
        layerLabel |-> safeTemplate.layers[i].label,
        layerDescription |-> safeTemplate.layers[i].description,
        cards |-> [c \in ColumnIds(safeTemplate) |-> << >>]]])

-----------------------------------------------------------------------------
(* Cards and rows (lib/boardStorage.ts).  A persisted value is a record;   *)
(* a field that is absent or of the wrong type is absent from the record.  *)

LEGACY_COLUMNS == <<"stakeholders", "issues", "ideas">>

LEGACY_LAYER_LABELS(layerId) ==
  CASE layerId = <<"informal">> -> <<"Informal">>
    [] layerId = <<"formal">> -> <<"Formal">>
    [] layerId = <<"technical">> -> <<"TÃ©cnico">>
    [] OTHER -> layerId

isPostItColor(value) == value \in POST_IT_COLORS

isBoardCard(value) ==
  /\ "id" \in DOMAIN value
  /\ "content" \in DOMAIN value
  /\ ("color" \notin DOMAIN value \/ isPostItColor(value.color))

normalizeCard(card) ==
  [id |-> card.id,
   content |-> card.content,
   color |-> IF "color" \in DOMAIN card /\ isPostItColor(card.color)
             THEN card.color ELSE DEFAULT_POST_IT_COLOR]

normalizeCards(cards) == [i \in DOMAIN cards |-> normalizeCard(cards[i])]

TemplateLayer(template, layerId) ==
  With(FindIndex(template.layers, LAMBDA l : l.id = layerId), LAMBDA i :
    IF i = 0 THEN None ELSE Some(template.layers[i]))

normalizeRow(row, template) ==
  With(TemplateLayer(template, row.layerId), LAMBDA layer :
    [layerId |-> row.layerId,
     layerLabel |-> IF layer.ok THEN layer.value.label ELSE row.layerLabel,
     layerDescription |-> IF layer.ok THEN layer.value.description
                          ELSE row.layerDescription,
     cards |-> [c \in ColumnIds(template) |->
                  IF "cards" \in DOMAIN row /\ c \in DOMAIN row.cards
                  THEN normalizeCards(SelectSeq(row.cards[c], isBoardCard))
                  ELSE << >>]])

\* One element of the persisted row array under the template-aware schema.
parseTemplateAwareRow(row, template) ==
  IF "layerId" \notin DOMAIN row THEN None
  ELSE
    With(TemplateLayer(template, row.layerId), LAMBDA layer :
      IF ~layer.ok THEN None
      ELSE IF "cards" \notin DOMAIN row THEN None
      ELSE IF \E c \in ColumnIds(template) :
                \/ c \notin DOMAIN row.cards
                \/ \E k \in DOMAIN row.cards[c] :
                     ~isBoardCard(row.cards[c][k])
      THEN None
      ELSE Some([layerId |-> layer.value.id,
                 layerLabel |-> layer.value.label,
                 layerDescription |->
                   IF "layerDescription" \in DOMAIN row
                   THEN row.layerDescription
                   ELSE layer.value.description,
                 cards |-> [c \in ColumnIds(template) |->
                              normalizeCards(row.cards[c])]]))

\* value is None (not an array) or Some(sequence of persisted rows).
parseTemplateAwareRows(value, template) ==
  IF ~value.ok \/ Len(value.value) # Len(template.layers) THEN None
  ELSE With([i \in DOMAIN value.value |->
               parseTemplateAwareRow(value.value[i], template)],
            LAMBDA parsed :
              IF \A i \in DOMAIN parsed : parsed[i].ok
              THEN Some([i \in DOMAIN parsed |-> parsed[i].value])
              ELSE None)

parseLegacyRow(row) ==
  IF "layerId" \notin DOMAIN row THEN None
  ELSE IF \E k \in DOMAIN LEGACY_COLUMNS :
            \/ LEGACY_COLUMNS[k] \notin DOMAIN row
            \/ \E j \in DOMAIN row[LEGACY_COLUMNS[k]] :
                 ~isBoardCard(row[LEGACY_COLUMNS[k]][j])
  THEN None
  ELSE Some([layerId |-> row.layerId,
             layerLabel |-> IF "layerLabel" \in DOMAIN row
                            THEN row.layerLabel
                            ELSE LEGACY_LAYER_LABELS(row.layerId),
             layerDescription |-> EmptyStr,
             cards |-> [c \in {<<LEGACY_COLUMNS[k]>> :
                                 k \in DOMAIN LEGACY_COLUMNS} |->
                          normalizeCards(row[c[1]])]])

parseLegacyRows(value) ==
  IF ~value.ok \/ Len(value.value) # Len(CLASSIC_BOARD_TEMPLATE.layers)
  THEN None
  ELSE With([i \in DOMAIN value.value |-> parseLegacyRow(value.value[i])],
            LAMBDA parsed :
              IF \A i \in DOMAIN parsed : parsed[i].ok
              THEN Some([i \in DOMAIN parsed |-> parsed[i].value])
              ELSE None)

parseBoardRows(value, template) ==
  With(parseTemplateAwareRows(value, template), LAMBDA aware :
    IF aware.ok THEN aware
    ELSE IF template.id = CLASSIC_BOARD_TEMPLATE_ID
         THEN parseLegacyRows(value)
         ELSE None)

-----------------------------------------------------------------------------
(* Card order engine (lib/boardStorage.ts).                                *)

RECURSIVE normalizeOrderedIds(_)
normalizeOrderedIds(ids) ==
  IF ids = << >> THEN << >>
  ELSE LET init == normalizeOrderedIds(SubSeq(ids, 1, Len(ids) - 1))
           last == ids[Len(ids)]
       IN IF last \in Range(init) THEN init ELSE Append(init, last)

\* The stable sort of the cards by the position of their id in the list;
\* cards whose id is not listed compare greater than every listed card and
\* equal to each other.
RECURSIVE cardsInListOrder(_, _)
cardsInListOrder(cards, ids) ==
  IF ids = << >> THEN << >>
  ELSE SelectSeq(cards, LAMBDA c : c.id = Head(ids))
       \o cardsInListOrder(cards, Tail(ids))

\* orderCardsByIds keeping only the cards whose id is listed.
orderCardsByIdsListed(cards, orderedIds) ==
  cardsInListOrder(cards, normalizeOrderedIds(orderedIds))

\* orderCardsByIds with the comparison the wrong way round: the cards are
\* put in the order of the list read backwards.
orderCardsByIdsBackwards(cards, orderedIds) ==
  LET ids == normalizeOrderedIds(orderedIds)
  IN cardsInListOrder(cards, [i \in DOMAIN ids |-> ids[Len(ids) + 1 - i]])
     \o SelectSeq(cards, LAMBDA c : c.id \notin Range(ids))

orderCardsByIds(cards, orderedIds) ==
  LET ids == normalizeOrderedIds(orderedIds)
  IN cardsInListOrder(cards, ids)
     \o SelectSeq(cards, LAMBDA c : c.id \notin Range(ids))

\* The reduce over the rows: a later row overwrites the entry of an earlier
\* row with the same layerId.
buildCardOrder(rows) ==
  [l \in {rows[i].layerId : i \in DOMAIN rows} |->
     LET last == CHOOSE i \in DOMAIN rows :
                   /\ rows[i].layerId = l
                   /\ \A j \in DOMAIN rows : rows[j].layerId = l => j <= i
     IN [c \in DOMAIN rows[last].cards |->
           [k \in DOMAIN rows[last].cards[c] |-> rows[last].cards[c][k].id]]]

\* cardOrder is None when isCardOrderMap rejects it.
applyCardOrder(rows, cardOrder) ==
  IF ~cardOrder.ok THEN rows
  ELSE [i \in DOMAIN rows |->
          IF rows[i].layerId \notin DOMAIN cardOrder.value THEN rows[i]
          ELSE LET layerOrder == cardOrder.value[rows[i].layerId]
               IN [rows[i] EXCEPT !.cards =
                     [c \in DOMAIN rows[i].cards |->
                        orderCardsByIds(rows[i].cards[c],
                                        IF c \in DOMAIN layerOrder
                                        THEN layerOrder[c] ELSE << >>)]]]

-----------------------------------------------------------------------------
(* Projects and the workspace (lib/boardStorage.ts).                       *)

\* A JSON number is kept as its floor; a number that is not an integer has,
\* next to the field that holds it, a field of the same name ending in
\* Fraction.  IsPositiveNumber is the test n > 0 on such a number.
IsPositiveNumber(floor, fractional) == floor > 0 \/ (floor = 0 /\ fractional)

normalizeProject(project) ==
  With(normalizeTemplate(IF "template" \in DOMAIN project
                         THEN Some(project.template) ELSE None),
       LAMBDA maybeTemplate :
  With(IF maybeTemplate.ok THEN maybeTemplate.value
       ELSE cloneTemplate(CLASSIC_BOARD_TEMPLATE),
       LAMBDA normalizedTemplate :
  With(parseBoardRows(Some(project.rows), normalizedTemplate),
       LAMBDA maybeRows :
  With(IF maybeRows.ok THEN maybeRows.value
       ELSE createInitialBoard(normalizedTemplate),
       LAMBDA normalizedRows :
  With(Trim(project.name), LAMBDA trimmedName :
    [id |-> project.id,
     name |-> IF trimmedName = EmptyStr THEN DefaultProjectName
              ELSE trimmedName,
     focalProblem |-> project.focalProblem,
     author |-> project.author,
     version |-> IF "versionFraction" \notin DOMAIN project
                    /\ project.version > 0
                 THEN project.version ELSE 1,
     createdAt |-> project.createdAt,
     updatedAt |-> project.updatedAt,
     templateId |-> normalizedTemplate.id,
     template |-> normalizedTemplate,
     rows |-> [i \in DOMAIN normalizedRows |->
                 normalizeRow(normalizedRows[i], normalizedTemplate)]])))))

isProject(value) ==
  {"id", "name", "focalProblem", "author", "version", "createdAt",
   "updatedAt", "rows"} \subseteq DOMAIN value

\* parseWorkspace trusting the stored activeProjectId.
parseWorkspaceKeepingActive(value) ==
  IF ~value.ok THEN None
  ELSE IF ~({"activeProjectId", "projects"} \subseteq DOMAIN value.value)
  THEN None
  ELSE IF \E i \in DOMAIN value.value.projects :
            ~isProject(value.value.projects[i])
  THEN None
  ELSE
    With([i \in DOMAIN value.value.projects |->
            normalizeProject(value.value.projects[i])],
         LAMBDA projects :
           IF Len(projects) = 0 THEN None
           ELSE Some([activeProjectId |-> value.value.activeProjectId,
                      projects |-> projects]))

\* value is None (not an object) or Some(record); a field of the wrong type
\* is absent from the record.
parseWorkspace(value) ==
  IF ~value.ok THEN None
  ELSE IF ~({"activeProjectId", "projects"} \subseteq DOMAIN value.value)
  THEN None
  ELSE IF \E i \in DOMAIN value.value.projects :
            ~isProject(value.value.projects[i])
  THEN None
  ELSE
    With([i \in DOMAIN value.value.projects |->
            normalizeProject(value.value.projects[i])],
         LAMBDA projects :
           IF Len(projects) = 0 THEN None
           ELSE Some([activeProjectId |->
                        IF \E i \in DOMAIN projects :
                             projects[i].id = value.value.activeProjectId
                        THEN value.value.activeProjectId
                        ELSE projects[1].id,
                      projects |-> projects]))

\* options holds the fields the caller passes; uuid and time are the values
\* createId() and new Date().toISOString() return.
createProject(name, options, uuid, time) ==
  With(normalizeTemplate(IF "template" \in DOMAIN options
                         THEN Some(options.template) ELSE None),
       LAMBDA maybeTemplate :
  With(IF maybeTemplate.ok THEN maybeTemplate.value
       ELSE cloneTemplate(CLASSIC_BOARD_TEMPLATE),
       LAMBDA template :
    normalizeProject(
      [id |-> uuid,
       name |-> name,
       focalProblem |-> IF "focalProblem" \in DOMAIN options
                        THEN options.focalProblem ELSE EmptyStr,
       author |-> IF "author" \in DOMAIN options
                  THEN options.author ELSE EmptyStr,
       version |-> IF "version" \in DOMAIN options
                   THEN options.version ELSE 1,
       createdAt |-> time,
       updatedAt |-> time,
       templateId |-> template.id,
       template |-> template,
       rows |-> IF "rows" \in DOMAIN options THEN options.rows
                ELSE createInitialBoard(template)])))

duplicateProjectVersion(sourceProject, uuid, time) ==
  createProject(sourceProject.name,
                [focalProblem |-> sourceProject.focalProblem,
                 author |-> sourceProject.author,
                 version |-> sourceProject.version + 1,
                 template |-> sourceProject.template,
                 rows |-> sourceProject.rows],
                uuid, time)

ProjectNumberName(n) == <<"Projeto", " ", ToString(n)>>

createInitialWorkspace(uuid, time) ==
  With(createProject(ProjectNumberName(1),
                     [template |-> CLASSIC_BOARD_TEMPLATE], uuid, time),
       LAMBDA project :
         [activeProjectId |-> project.id, projects |-> <<project>>])

\* The content of a storage key: absent (getItem returns null), text that
\* JSON.parse rejects, or a parsed JSON value.
StorageAbsent == [kind |-> "absent"]

StorageMalformed == [kind |-> "malformed"]

StorageJson(v) == [kind |-> "json", value |-> v]

\* A parsed legacy value: an array of rows, an object (with or without a
\* rows array), or anything else.
legacyRowsOf(legacyParsed) ==
  With(parseBoardRows(IF legacyParsed.shape = "array"
                      THEN Some(legacyParsed.items) ELSE None,
                      CLASSIC_BOARD_TEMPLATE),
       LAMBDA direct :
         IF direct.ok THEN direct
         ELSE IF legacyParsed.shape = "object" /\ legacyParsed.hasRows
              THEN parseBoardRows(legacyParsed.rows, CLASSIC_BOARD_TEMPLATE)
              ELSE None)

loadWorkspace(stored, uuid, time) ==
  IF stored.workspace.kind = "absent"
  THEN IF stored.legacy.kind = "absent"
       THEN createInitialWorkspace(uuid, time)
       ELSE IF stored.legacy.kind = "malformed"
       THEN createInitialWorkspace(uuid, time)
       ELSE With(legacyRowsOf(stored.legacy.value), LAMBDA legacyRows :
              IF ~legacyRows.ok THEN createInitialWorkspace(uuid, time)
              ELSE With(createProject(<<"Projeto", " ", "migrado">>,
                                      [template |-> CLASSIC_BOARD_TEMPLATE,
                                       rows |-> legacyRows.value],
                                      uuid, time),
                        LAMBDA migratedProject :
                          [activeProjectId |-> migratedProject.id,
                           projects |-> <<migratedProject>>]))
  ELSE IF stored.workspace.kind = "malformed"
  THEN createInitialWorkspace(uuid, time)
  ELSE With(parseWorkspace(stored.workspace.value), LAMBDA parsed :
         IF parsed.ok THEN parsed.value
         ELSE createInitialWorkspace(uuid, time))

\* JSON.stringify of the workspace under the workspace key.
saveWorkspace(stored, ws) ==
  [stored EXCEPT !.workspace = StorageJson(Some(ws))]

-----------------------------------------------------------------------------
(* The workspace store (hooks/useBoardWorkspace.ts).                       *)

ActiveIndex(ws) ==
  FindIndex(ws.projects, LAMBDA p : p.id = ws.activeProjectId)

\* The activeProject memo: the project found by id, else the first one.
activeProject(ws) ==
  IF ActiveIndex(ws) > 0 THEN ws.projects[ActiveIndex(ws)]
  ELSE ws.projects[1]

\* updateActiveProject (useBoardWorkspace.ts 43-72): the updater is applied to
\* the project at the active index and updatedAt is set to the clock.
\* A project list in which every project carrying the id of the project at
\* activeProjectIndex is replaced by nextProject.
withProjectOfSameId(ws, activeProjectIndex, nextProject, time) ==
  [ws EXCEPT !.projects =
     [index \in DOMAIN ws.projects |->
        IF ws.projects[index].id # ws.projects[activeProjectIndex].id
        THEN ws.projects[index]
        ELSE [nextProject EXCEPT !.updatedAt = time]]]

\* The projects.map of updateActiveProject: the project at
\* activeProjectIndex becomes nextProject stamped with the current time,
\* every other index keeps its project.
withProjectAt(ws, activeProjectIndex, nextProject, time) ==
  [ws EXCEPT !.projects =
     [index \in DOMAIN ws.projects |->
        IF index # activeProjectIndex THEN ws.projects[index]
        ELSE [nextProject EXCEPT !.updatedAt = time]]]

updateActiveProject(ws, updater(_), time) ==
  LET activeProjectIndex == ActiveIndex(ws)
  IN IF activeProjectIndex = 0 THEN ws
     ELSE withProjectAt(ws, activeProjectIndex,
                        updater(ws.projects[activeProjectIndex]), time)

selectProject(ws, nextProjectId) ==
  IF ~\E i \in DOMAIN ws.projects : ws.projects[i].id = nextProjectId
  THEN ws
  ELSE [ws EXCEPT !.activeProjectId = nextProjectId]

createNewProject(ws, uuid, time) ==
  With(createProject(ProjectNumberName(Len(ws.projects) + 1),
                     [none |-> TRUE], uuid, time),
       LAMBDA nextProject :
         [activeProjectId |-> nextProject.id,
          projects |-> Append(ws.projects, nextProject)])

\* source is the activeProject of the render the caller ran in.
createNewVersion(ws, source, uuid, time) ==
  With(duplicateProjectVersion(source, uuid, time),
       LAMBDA versionedProject :
         [activeProjectId |-> versionedProject.id,
          projects |-> Append(ws.projects, versionedProject)])

\* deleteActiveProject that empties the only project instead of refusing.
deleteActiveProjectOrEmpty(ws) ==
  IF Len(ws.projects) <= 1
  THEN [ws EXCEPT !.projects =
          [i \in DOMAIN ws.projects |->
             [ws.projects[i] EXCEPT
                !.name = DefaultProjectName,
                !.rows = createInitialBoard(ws.projects[i].template)]]]
  ELSE LET activeProjectIndex == ActiveIndex(ws)
           nextProjects ==
             SelectSeq(ws.projects, LAMBDA p : p.id # ws.activeProjectId)
           fallbackIndex == Max2(1, activeProjectIndex - 1)
       IN IF activeProjectIndex = 0 THEN ws
          ELSE IF Len(nextProjects) = 0 THEN ws
          ELSE [activeProjectId |->
                  IF fallbackIndex <= Len(nextProjects)
                  THEN nextProjects[fallbackIndex].id
                  ELSE nextProjects[1].id,
                projects |-> nextProjects]

deleteActiveProject(ws) ==
  IF Len(ws.projects) <= 1 THEN ws
  ELSE LET activeProjectIndex == ActiveIndex(ws)
           nextProjects ==
             SelectSeq(ws.projects, LAMBDA p : p.id # ws.activeProjectId)
           \* Math.max(0, activeProjectIndex - 1), as a 1-based position
           fallbackIndex == Max2(1, activeProjectIndex - 1)
       IN IF activeProjectIndex = 0 THEN ws
          ELSE IF Len(nextProjects) = 0 THEN ws
          ELSE [activeProjectId |->
                  IF fallbackIndex <= Len(nextProjects)
                  THEN nextProjects[fallbackIndex].id
                  ELSE nextProjects[1].id,
                projects |-> nextProjects]

\* payload holds name (optional), focalProblem, author, version and rows;
\* the template the caller passes is not read.
importProjectAsNew(ws, payload, uuid, time) ==
  With(IF "name" \in DOMAIN payload THEN Trim(payload.name) ELSE EmptyStr,
       LAMBDA trimmedName :
  With(createProject(IF trimmedName # EmptyStr THEN trimmedName
                     ELSE ProjectNumberName(Len(ws.projects) + 1),
                     [focalProblem |-> payload.focalProblem,
                      author |-> payload.author,
                      version |-> IF IsPositiveNumber(payload.version,
                                                      payload.versionFraction)
                                  THEN payload.version ELSE 1,
                      rows |-> payload.rows],
                     uuid, time),
       LAMBDA nextProject :
         [activeProjectId |-> nextProject.id,
          projects |-> Append(ws.projects, nextProject)]))

-----------------------------------------------------------------------------
(* Drag and drop (hooks/useBoardDnd.ts).  Row indexes are 1-based; an      *)
(* index outside DOMAIN rows is a row that does not exist.                 *)

\* moveCardToTarget without the splice of the source list: the card is
\* copied into the destination.
moveCardToTargetCopying(currentRows, payload, toRowIndex, toColumnId, targetCardId, placement) ==
  IF payload.fromRowIndex \notin DOMAIN currentRows THEN currentRows
  ELSE IF toRowIndex \notin DOMAIN currentRows THEN currentRows
  ELSE IF payload.fromColumnId
            \notin DOMAIN currentRows[payload.fromRowIndex].cards
  THEN currentRows
  ELSE
    LET sourceCards ==
          currentRows[payload.fromRowIndex].cards[payload.fromColumnId]
        sourceIndex == FindIndex(sourceCards,
                                 LAMBDA card : card.id = payload.cardId)
    IN IF sourceIndex = 0 THEN currentRows
       ELSE IF toColumnId \notin DOMAIN currentRows[toRowIndex].cards
       THEN currentRows
       ELSE [currentRows EXCEPT ![toRowIndex].cards[toColumnId] =
               Append(currentRows[toRowIndex].cards[toColumnId],
                      sourceCards[sourceIndex])]

\* moveCardToTarget returning the working copy when the destination column
\* does not exist: the card already spliced out of the source list is lost.
moveCardToTargetLosing(currentRows, payload, toRowIndex, toColumnId, targetCardId, placement) ==
  IF payload.fromRowIndex \notin DOMAIN currentRows THEN currentRows
  ELSE IF toRowIndex \notin DOMAIN currentRows THEN currentRows
  ELSE IF payload.fromColumnId
            \notin DOMAIN currentRows[payload.fromRowIndex].cards
  THEN currentRows
  ELSE
    LET sourceCards ==
          currentRows[payload.fromRowIndex].cards[payload.fromColumnId]
        sourceIndex == FindIndex(sourceCards,
                                 LAMBDA card : card.id = payload.cardId)
    IN IF sourceIndex = 0 THEN currentRows
       ELSE [currentRows EXCEPT
               ![payload.fromRowIndex].cards[payload.fromColumnId]
                  = RemoveAt(sourceCards, sourceIndex)]

\* moveCardToTarget with the placement ignored: the card always goes before
\* the target card.
moveCardToTargetBefore(currentRows, payload, toRowIndex, toColumnId, targetCardId, placement) ==
  IF payload.fromRowIndex \notin DOMAIN currentRows THEN currentRows
  ELSE IF toRowIndex \notin DOMAIN currentRows THEN currentRows
  ELSE IF payload.fromColumnId
            \notin DOMAIN currentRows[payload.fromRowIndex].cards
  THEN currentRows
  ELSE
    LET sourceCards ==
          currentRows[payload.fromRowIndex].cards[payload.fromColumnId]
        sourceIndex == FindIndex(sourceCards,
                                 LAMBDA card : card.id = payload.cardId)
    IN IF sourceIndex = 0 THEN currentRows
       ELSE
         LET cardToMove == sourceCards[sourceIndex]
             spliced == [currentRows EXCEPT
                           ![payload.fromRowIndex].cards[payload.fromColumnId]
                              = RemoveAt(sourceCards, sourceIndex)]
         IN IF toColumnId \notin DOMAIN spliced[toRowIndex].cards
            THEN currentRows
            ELSE
              LET targetCards == spliced[toRowIndex].cards[toColumnId]
                  targetIndex ==
                    IF targetCardId.ok
                    THEN FindIndex(targetCards,
                                   LAMBDA card : card.id = targetCardId.value)
                    ELSE 0
                  insertionIndex ==
                    IF targetIndex > 0 THEN targetIndex - 1
                    ELSE Len(targetCards)
              IN [spliced EXCEPT ![toRowIndex].cards[toColumnId] =
                    InsertAt(targetCards, insertionIndex, cardToMove)]

\* payload = [cardId, fromRowIndex, fromColumnId]; targetCardId is None for
\* a drop on a cell.
moveCardToTarget(currentRows, payload, toRowIndex, toColumnId, targetCardId, placement) ==
  IF payload.fromRowIndex \notin DOMAIN currentRows THEN currentRows
  ELSE IF toRowIndex \notin DOMAIN currentRows THEN currentRows
  ELSE IF payload.fromColumnId
            \notin DOMAIN currentRows[payload.fromRowIndex].cards
  THEN currentRows
  ELSE
    LET sourceCards ==
          currentRows[payload.fromRowIndex].cards[payload.fromColumnId]
        sourceIndex == FindIndex(sourceCards,
                                 LAMBDA card : card.id = payload.cardId)
    IN IF sourceIndex = 0 THEN currentRows
       ELSE
         LET cardToMove == sourceCards[sourceIndex]
             spliced == [currentRows EXCEPT
                           ![payload.fromRowIndex].cards[payload.fromColumnId]
                              = RemoveAt(sourceCards, sourceIndex)]
         IN IF toColumnId \notin DOMAIN spliced[toRowIndex].cards
            THEN currentRows
            ELSE
              LET targetCards == spliced[toRowIndex].cards[toColumnId]
                  targetIndex ==
                    IF targetCardId.ok
                    THEN FindIndex(targetCards,
                                   LAMBDA card : card.id = targetCardId.value)
                    ELSE 0
                  \* 0-based insertion index
                  insertionIndex ==
                    IF targetIndex > 0
                    THEN (IF placement = "after" THEN targetIndex
                          ELSE targetIndex - 1)
                    ELSE Len(targetCards)
                  clampedIndex ==
                    Max2(0, Min2(insertionIndex, Len(targetCards)))
              IN [spliced EXCEPT ![toRowIndex].cards[toColumnId] =
                    InsertAt(targetCards, clampedIndex, cardToMove)]

\* The earlier moveCardToTarget (no target card): the card is filtered out of
\* the source list and appended to the destination list.
moveCardToTargetAppend(currentRows, payload, toRowIndex, toColumnId) ==
  IF payload.fromRowIndex \notin DOMAIN currentRows THEN currentRows
  ELSE
    LET sourceCards ==
          currentRows[payload.fromRowIndex].cards[payload.fromColumnId]
        found == FindIndex(sourceCards,
                           LAMBDA card : card.id = payload.cardId)
    IN IF found = 0 THEN currentRows
       ELSE IF payload.fromRowIndex = toRowIndex
               /\ payload.fromColumnId = toColumnId
       THEN currentRows
       ELSE
         LET cardToMove == sourceCards[found]
             filtered ==
               [currentRows EXCEPT
                  ![payload.fromRowIndex].cards[payload.fromColumnId] =
                     SelectSeq(sourceCards,
                               LAMBDA card : card.id # payload.cardId)]
         IN IF toRowIndex \notin DOMAIN currentRows THEN filtered
            ELSE [filtered EXCEPT ![toRowIndex].cards[toColumnId] =
                    Append(filtered[toRowIndex].cards[toColumnId],
                           cardToMove)]

-----------------------------------------------------------------------------
(* Card operations (hooks/useBoardCards.ts): the updaters handed to        *)
(* updateActiveProject.                                                    *)

\* row.cards[columnId] ?? []
CardsAt(row, columnId) ==
  IF columnId \in DOMAIN row.cards THEN row.cards[columnId] ELSE << >>

\* { ...row.cards, [columnId]: list }
WithCards(row, columnId, list) ==
  [row EXCEPT !.cards =
     [c \in DOMAIN row.cards \cup {columnId} |->
        IF c = columnId THEN list ELSE row.cards[c]]]

saveCardUpdater(currentProject, rowIndex, columnId, value, cardId) ==
  [currentProject EXCEPT !.rows =
     [index \in DOMAIN currentProject.rows |->
        IF index = rowIndex
        THEN WithCards(currentProject.rows[index], columnId,
                       Append(CardsAt(currentProject.rows[index], columnId),
                              [id |-> cardId, content |-> value,
                               color |-> DEFAULT_POST_IT_COLOR]))
        ELSE currentProject.rows[index]]]

deleteCardUpdater(currentProject, rowIndex, columnId, cardId) ==
  [currentProject EXCEPT !.rows =
     [index \in DOMAIN currentProject.rows |->
        IF index = rowIndex
        THEN WithCards(currentProject.rows[index], columnId,
                       SelectSeq(CardsAt(currentProject.rows[index],
                                         columnId),
                                 LAMBDA card : card.id # cardId))
        ELSE currentProject.rows[index]]]

saveEditedCardUpdater(currentProject, rowIndex, columnId, cardId, value) ==
  [currentProject EXCEPT !.rows =
     [index \in DOMAIN currentProject.rows |->
        IF index = rowIndex
        THEN LET list == CardsAt(currentProject.rows[index], columnId)
             IN WithCards(currentProject.rows[index], columnId,
                          [k \in DOMAIN list |->
                             IF list[k].id = cardId
                             THEN [list[k] EXCEPT !.content = value]
                             ELSE list[k]])
        ELSE currentProject.rows[index]]]

changeCardColorUpdater(currentProject, rowIndex, columnId, cardId, color) ==
  [currentProject EXCEPT !.rows =
     [index \in DOMAIN currentProject.rows |->
        IF index = rowIndex
        THEN LET list == CardsAt(currentProject.rows[index], columnId)
             IN WithCards(currentProject.rows[index], columnId,
                          [k \in DOMAIN list |->
                             IF list[k].id = cardId
                             THEN [list[k] EXCEPT !.color = color]
                             ELSE list[k]])
        ELSE currentProject.rows[index]]]

\* hasMeaningfulContent: the value is not blank once trimmed.
hasMeaningfulContent(value) == Len(Trim(value)) > 0

-----------------------------------------------------------------------------
(* Undo / redo history (App.tsx).                                          *)

\* structuredClone: a deep copy, field by field.
cloneProjectSnapshot(project) ==
  [id |-> project.id, name |-> project.name,
   focalProblem |-> project.focalProblem, author |-> project.author,
   version |-> project.version, createdAt |-> project.createdAt,
   updatedAt |-> project.updatedAt, templateId |-> project.templateId,
   template |-> cloneTemplate(project.template),
   rows |-> [i \in DOMAIN project.rows |-> project.rows[i]]]

RECURSIVE SumSeq(_)
SumSeq(s) == IF s = << >> THEN 0 ELSE Head(s) + SumSeq(Tail(s))

RECURSIVE SumOver(_, _)
SumOver(f, keys) ==
  IF keys = {} THEN 0
  ELSE LET k == CHOOSE x \in keys : TRUE
       IN Len(f[k]) + SumOver(f, keys \ {k})

countRowCards(row) == SumOver(row.cards, DOMAIN row.cards)

countProjectCards(project) ==
  SumSeq([i \in DOMAIN project.rows |-> countRowCards(project.rows[i])])

\* updateActiveProjectWithHistory (App.tsx 160-177), as the workspace and the
\* two stacks it leaves.  isTimeTravelingRef is false whenever this updater runs: handleUndo and
\* handleRedo set it only around their own direct updateActiveProject call.
updateActiveProjectWithHistory(ws, undo, redo, updater(_), time) ==
  LET activeProjectIndex == ActiveIndex(ws)
  IN [workspace |-> updateActiveProject(ws, updater, time),
      undoStack |-> IF activeProjectIndex = 0 THEN undo
                    ELSE Append(undo,
                                cloneProjectSnapshot(
                                  ws.projects[activeProjectIndex])),
      redoStack |-> IF activeProjectIndex = 0 THEN redo ELSE << >>]

\* handleUndo taking the oldest snapshot instead of the newest.
handleUndoOldest(ws, undo, redo, time) ==
  IF Len(undo) = 0
  THEN [workspace |-> ws, undoStack |-> undo, redoStack |-> redo]
  ELSE [workspace |->
          updateActiveProject(ws, LAMBDA p : cloneProjectSnapshot(undo[1]),
                              time),
        undoStack |-> Tail(undo),
        redoStack |-> Append(redo, cloneProjectSnapshot(activeProject(ws)))]

\* handleUndo that forgets the snapshots already on the redo stack.
handleUndoClearingRedo(ws, undo, redo, time) ==
  IF Len(undo) = 0
  THEN [workspace |-> ws, undoStack |-> undo, redoStack |-> redo]
  ELSE [workspace |->
          updateActiveProject(
            ws, LAMBDA p : cloneProjectSnapshot(undo[Len(undo)]), time),
        undoStack |-> SubSeq(undo, 1, Len(undo) - 1),
        redoStack |-> <<cloneProjectSnapshot(activeProject(ws))>>]

handleUndo(ws, undo, redo, time) ==
  IF Len(undo) = 0
  THEN [workspace |-> ws, undoStack |-> undo, redoStack |-> redo]
  ELSE LET previousSnapshot == undo[Len(undo)]
       IN [workspace |->
             updateActiveProject(
               ws, LAMBDA p : cloneProjectSnapshot(previousSnapshot), time),
           undoStack |-> SubSeq(undo, 1, Len(undo) - 1),
           redoStack |-> Append(redo,
                                cloneProjectSnapshot(activeProject(ws)))]

\* handleRedo taking the oldest snapshot instead of the newest.
handleRedoOldest(ws, undo, redo, time) ==
  IF Len(redo) = 0
  THEN [workspace |-> ws, undoStack |-> undo, redoStack |-> redo]
  ELSE [workspace |->
          updateActiveProject(ws, LAMBDA p : cloneProjectSnapshot(redo[1]),
                              time),
        undoStack |-> Append(undo, cloneProjectSnapshot(activeProject(ws))),
        redoStack |-> Tail(redo)]

\* handleRedo without the early return: with nothing to redo it writes the
\* active project back.
handleRedoTouching(ws, undo, redo, time) ==
  IF Len(redo) = 0
  THEN [workspace |-> updateActiveProject(ws, LAMBDA p : p, time),
        undoStack |-> undo, redoStack |-> redo]
  ELSE [workspace |->
          updateActiveProject(
            ws, LAMBDA p : cloneProjectSnapshot(redo[Len(redo)]), time),
        undoStack |-> Append(undo, cloneProjectSnapshot(activeProject(ws))),
        redoStack |-> SubSeq(redo, 1, Len(redo) - 1)]

handleRedo(ws, undo, redo, time) ==
  IF Len(redo) = 0
  THEN [workspace |-> ws, undoStack |-> undo, redoStack |-> redo]
  ELSE LET nextSnapshot == redo[Len(redo)]
       IN [workspace |->
             updateActiveProject(
               ws, LAMBDA p : cloneProjectSnapshot(nextSnapshot), time),
           undoStack |-> Append(undo,
                                cloneProjectSnapshot(activeProject(ws))),
           redoStack |-> SubSeq(redo, 1, Len(redo) - 1)]

-----------------------------------------------------------------------------
(* The application state machine (App.tsx).  One action per handler; the   *)
(* effects that run after the handler's render are part of the action.     *)

Metadata(project) ==
  [name |-> project.name, focalProblem |-> project.focalProblem,
   author |-> project.author]

\* The content of a project: everything but its id and timestamps.
Content(project) ==
  [name |-> project.name, focalProblem |-> project.focalProblem,
   author |-> project.author, version |-> project.version,
   templateId |-> project.templateId, template |-> project.template,
   rows |-> project.rows]

isProjectDraftDirty == projectDraft # Metadata(activeProject(workspace))

\* The workspace and the two stacks as they stand.
Current ==
  [workspace |-> workspace, undoStack |-> undoStack, redoStack |-> redoStack]

NoHistory ==
  [commitPre |-> << >>, undoPre |-> << >>,
   c |-> "none", cUndone |-> 0, u |-> "none", uRedone |-> 0]

\* The record of the consecutive commits and undos, kept to state the
\* history symmetry: commitPre holds the content before each commit of the
\* current run of commits and cUndone the number of undos that followed
\* them; undoPre holds the content before each undo of the current run of
\* undos and uRedone the number of redos that followed them.  kind is what
\* the handler did: "commit", "commit2" (two commits, with the content mid
\* between them), "undo", "redo" or "none".
HistoryAfter(h, kind, switched, pre, mid) ==
  IF switched THEN NoHistory
  ELSE IF kind \in {"commit", "commit2"}
  THEN [commitPre |-> (IF h.c = "commits" THEN h.commitPre ELSE << >>)
                      \o (IF kind = "commit2" THEN <<pre, mid>>
                          ELSE <<pre>>),
        undoPre |-> << >>,
        c |-> "commits", cUndone |-> 0, u |-> "none", uRedone |-> 0]
  ELSE IF kind = "undo"
  THEN IF h.c \in {"commits", "undos"} /\ h.cUndone < Len(h.commitPre)
       THEN [commitPre |-> h.commitPre,
             undoPre |-> IF h.u = "undos" THEN Append(h.undoPre, pre)
                         ELSE <<pre>>,
             c |-> "undos", cUndone |-> h.cUndone + 1,
             u |-> "undos", uRedone |-> 0]
       ELSE [commitPre |-> << >>,
             undoPre |-> IF h.u = "undos" THEN Append(h.undoPre, pre)
                         ELSE <<pre>>,
             c |-> "none", cUndone |-> 0, u |-> "undos", uRedone |-> 0]
  ELSE IF kind = "redo"
  THEN IF h.u \in {"undos", "redos"} /\ h.uRedone < Len(h.undoPre)
       THEN [commitPre |-> << >>, undoPre |-> h.undoPre,
             c |-> "none", cUndone |-> 0,
             u |-> "redos", uRedone |-> h.uRedone + 1]
       ELSE NoHistory
  ELSE h

\* No effect keyed on the active project's id.
historyKept(switched, stack) == stack

\* The effect keyed on activeProject?.id: a stack after it has run.
historyResetEffect(switched, stack) == IF switched THEN << >> ELSE stack

\* No effect switching structure edit mode off.
structureModeKept(switched, cardCount, mode) == mode

\* The effects keyed on activeProject?.id and on canChangeTemplate:
\* structure edit mode after they have run.
structureModeEffect(switched, cardCount, mode) ==
  IF switched \/ cardCount # 0 THEN FALSE ELSE mode

\* The requests that edit the structure of the active project.
StructuralOps ==
  {"renameColumn", "renameLayer", "addColumn", "removeColumn", "addLayer",
   "removeLayer", "changeTemplate"}

\* The handlers whose refusals are recorded under their own name.
TrackedNoOps ==
  {"undo", "redo", "deleteActiveProject", "requestDeleteProject",
   "toggleStructureEditMode", "importRejected", "draftCancelled",
   "dialogCancelled", "choiceCancelled"} \cup StructuralOps

\* persistenceEffect that runs only when another project became active.
persistenceEffectOnSwitch(stored, before, after) ==
  IF after.activeProjectId # before.activeProjectId
  THEN saveWorkspace(stored, after) ELSE stored

\* The effect that depends on [workspace]: it runs after the render when the
\* workspace changed, and writes the workspace under the workspace key.
persistenceEffect(stored, before, after) ==
  IF after # before THEN saveWorkspace(stored, after) ELSE stored

\* The state after the handler has run and React has rendered: the effects
\* keyed on the active project's metadata (draft), on its id (history and
\* structure edit mode), on its card count (structure edit mode) and on the
\* workspace (persistence) have run.  r is the workspace and the stacks the
\* handler leaves.  The wall clock has moved on by one tick since the
\* previous handler; Date.now() in the handler reads now + 1.
Settle(name, kind, r, mode2, draft2, id2) ==
  LET before == activeProject(workspace)
      after == activeProject(r.workspace)
      switched == after.id # before.id
  IN /\ now < MaxClock
     /\ workspace' = r.workspace
     /\ undoStack' = historyResetEffect(switched, r.undoStack)
     /\ redoStack' = historyResetEffect(switched, r.redoStack)
     /\ isStructureEditMode' =
          structureModeEffect(switched, countProjectCards(after), mode2)
     /\ projectDraft' = IF Metadata(after) # Metadata(before)
                        THEN Metadata(after) ELSE draft2
     /\ storage' = persistenceEffect(storage, workspace, r.workspace)
     /\ now' = now + 1
     /\ idCounter' = id2
     /\ lastOp' = [name |-> IF \/ r # Current
                               \/ mode2 # isStructureEditMode
                               \/ draft2 # projectDraft
                               \/ name \in TrackedNoOps
                            THEN name ELSE "none",
                   kind |-> kind, switched |-> switched]
     /\ hist' = HistoryAfter(hist, kind, switched, Content(before),
                             [Content(before) EXCEPT
                                !.name = projectDraft.name,
                                !.focalProblem = projectDraft.focalProblem,
                                !.author = projectDraft.author])
     /\ UNCHANGED mv

\* A handler that commits one mutation of the active project.
CommitStep(name, updater(_)) ==
  Settle(name, "commit",
         updateActiveProjectWithHistory(workspace, undoStack, redoStack,
                                        updater, now + 1),
         isStructureEditMode, projectDraft, idCounter)

\* A handler that returns without touching the state.
NoOpStep(name) ==
  Settle(name, "none", Current, isStructureEditMode, projectDraft, idCounter)

KindOf(resolution) == IF resolution = "saved" THEN "commit" ELSE "none"

\* The resolved draft of a handler that asks nothing about the draft.
NoDraft == [resolution |-> "clean", r |-> Current, draft |-> projectDraft]

\* cancelled that also discards the metadata draft.
cancelledDiscarding(d) ==
  [d EXCEPT !.draft = Metadata(activeProject(d.r.workspace))]

\* What a handler holds when a dialog is answered with cancel and the
\* handler returns: what the resolved draft d left, nothing more.
cancelled(d) == d

\* A handler that returns because a dialog was answered with cancel: the
\* unsaved-changes dialog (name "draftCancelled"), the dialog a handler
\* opens once the draft is resolved ("choiceCancelled"), or the dialog of a
\* handler that does not look at the draft ("dialogCancelled").
CancelStep(name, d) ==
  Settle(name, KindOf(d.resolution), cancelled(d).r, isStructureEditMode,
         cancelled(d).draft, idCounter)

\* The cells and cards the board renders, cut to the slots explored.
ShownRows == {i \in DOMAIN activeProject(workspace).rows : i <= MaxSlotRow}

ShownColumns ==
  {activeProject(workspace).template.columns[i].id :
     i \in {j \in DOMAIN activeProject(workspace).template.columns :
              j <= MaxSlotCol}}

ShownCards(rowIndex, columnId) ==
  Range(CardsAt(activeProject(workspace).rows[rowIndex], columnId))

CardValues == {<<"x">>, <<" ">>}

EditedValues == {<<"y">>}

PaletteColors == {"pink"}

DialogChoices == {"confirm", "cancel"}

\* createId() returns idCounter + 1 for the new card.
HandleSaveCard ==
  \E rowIndex \in ShownRows, columnId \in ShownColumns, value \in CardValues :
    IF ~hasMeaningfulContent(value) THEN NoOpStep("saveCard")
    ELSE /\ countProjectCards(activeProject(workspace)) < MaxCards
         /\ Settle("saveCard", "commit",
                   updateActiveProjectWithHistory(
                     workspace, undoStack, redoStack,
                     LAMBDA p : saveCardUpdater(p, rowIndex, columnId, value,
                                                idCounter + 1),
                     now + 1),
                   isStructureEditMode, projectDraft, idCounter + 1)

HandleRequestDeleteCard ==
  \E rowIndex \in ShownRows, columnId \in ShownColumns,
     deleteChoice \in DialogChoices :
    \E card \in ShownCards(rowIndex, columnId) :
      IF deleteChoice # "confirm" THEN CancelStep("dialogCancelled", NoDraft)
      ELSE CommitStep("deleteCard",
                      LAMBDA p : deleteCardUpdater(p, rowIndex, columnId,
                                                   card.id))

HandleSaveEditedCard ==
  \E rowIndex \in ShownRows, columnId \in ShownColumns,
     value \in EditedValues :
    \E card \in ShownCards(rowIndex, columnId) :
      /\ hasMeaningfulContent(value)
      /\ CommitStep("saveEditedCard",
                    LAMBDA p : saveEditedCardUpdater(p, rowIndex, columnId,
                                                     card.id, value))

HandleChangeCardColor ==
  \E rowIndex \in ShownRows, columnId \in ShownColumns,
     color \in PaletteColors :
    \E card \in ShownCards(rowIndex, columnId) :
      CommitStep("changeCardColor",
                 LAMBDA p : changeCardColorUpdater(p, rowIndex, columnId,
                                                   card.id, color))

\* handleResetBoard reads activeTemplate from the render it was created in.
HandleRequestResetBoard ==
  \E resetChoice \in DialogChoices :
    IF resetChoice # "confirm" THEN CancelStep("dialogCancelled", NoDraft)
    ELSE \E activeTemplate \in {activeProject(workspace).template} :
           CommitStep("resetBoard",
                      LAMBDA p : [p EXCEPT !.rows =
                                    createInitialBoard(activeTemplate)])

\* The payload of a drag: the card a drag started on, or a stale one whose
\* card is no longer (or not yet) in that slot.
DragPayloads ==
  {[cardId |-> card.id, fromRowIndex |-> r, fromColumnId |-> c] :
     <<r, c, card>> \in
       ShownRows \X ShownColumns
         \X UNION {ShownCards(r2, c2) :
                     <<r2, c2>> \in ShownRows \X ShownColumns}}

HandleCellDrop ==
  \E payload \in DragPayloads, toRowIndex \in ShownRows,
     toColumnId \in ShownColumns :
    CommitStep("cellDrop",
               LAMBDA p : [p EXCEPT !.rows =
                             moveCardToTarget(p.rows, payload, toRowIndex,
                                              toColumnId, None, "before")])

HandleCardDrop ==
  \E payload \in DragPayloads, toRowIndex \in ShownRows,
     toColumnId \in ShownColumns, placement \in {"before", "after"} :
    \E target \in ShownCards(toRowIndex, toColumnId) :
      CommitStep("cardDrop",
                 LAMBDA p : [p EXCEPT !.rows =
                               moveCardToTarget(p.rows, payload, toRowIndex,
                                                toColumnId, Some(target.id),
                                                placement)])

\* saveProjectDraft through the store's updateActiveProject, past the
\* history.
saveProjectDraftUnrecorded(ws, undo, redo, draft, time) ==
  [workspace |->
     updateActiveProject(ws,
                         LAMBDA p : [p EXCEPT !.name = draft.name,
                                              !.focalProblem =
                                                draft.focalProblem,
                                              !.author = draft.author],
                         time),
   undoStack |-> undo, redoStack |-> redo]

\* saveProjectDraft, as the workspace and stacks it leaves.
saveProjectDraft(ws, undo, redo, draft, time) ==
  updateActiveProjectWithHistory(
    ws, undo, redo,
    LAMBDA p : [p EXCEPT !.name = draft.name,
                         !.focalProblem = draft.focalProblem,
                         !.author = draft.author],
    time)

\* resolveProjectDraftBeforeContinue with the user's answer to the
\* unsaved-changes dialog (not asked when the draft is clean): the
\* resolution, the workspace and stacks it leaves (r) and the draft.
resolveProjectDraftBeforeContinue(choice) ==
  IF ~isProjectDraftDirty
  THEN [resolution |-> "clean", r |-> Current, draft |-> projectDraft]
  ELSE IF choice = "save"
  THEN [resolution |-> "saved",
        r |-> saveProjectDraft(workspace, undoStack, redoStack,
                               projectDraft, now + 1),
        draft |-> projectDraft]
  ELSE IF choice = "discard"
  THEN [resolution |-> "discarded", r |-> Current,
        draft |-> Metadata(activeProject(workspace))]
  ELSE [resolution |-> "cancel", r |-> Current, draft |-> projectDraft]

DraftChoices == {"save", "discard", "cancel"}

\* The answers that can be given: none is asked for a clean draft.
DraftAnswers == IF isProjectDraftDirty THEN DraftChoices ELSE {"save"}

DraftFields == {"name"}

DraftValues == {<<"A">>}

ChangeProjectDraftField ==
  \E field \in DraftFields, value \in DraftValues :
    Settle("changeDraftField", "none", Current, isStructureEditMode,
           [projectDraft EXCEPT ![field] = value], idCounter)

SaveProjectDraft ==
  Settle("saveProjectDraft", "commit",
         saveProjectDraft(workspace, undoStack, redoStack, projectDraft,
                          now + 1),
         isStructureEditMode, projectDraft, idCounter)

CancelProjectDraft ==
  Settle("cancelProjectDraft", "none", Current, isStructureEditMode,
         Metadata(activeProject(workspace)), idCounter)

\* The workspace ws with the stacks of d, a resolved draft.
AfterDraft(d, ws) ==
  [workspace |-> ws, undoStack |-> d.r.undoStack,
   redoStack |-> d.r.redoStack]

HandleSelectProject ==
  \E i \in DOMAIN workspace.projects, choice \in DraftAnswers :
    \E d \in {resolveProjectDraftBeforeContinue(choice)} :
      IF activeProject(workspace).id = workspace.projects[i].id
      THEN NoOpStep("selectProject")
      ELSE IF d.resolution = "cancel" THEN CancelStep("draftCancelled", d)
      ELSE Settle("selectProject", KindOf(d.resolution),
                  AfterDraft(d, selectProject(d.r.workspace,
                                              workspace.projects[i].id)),
                  isStructureEditMode, d.draft, idCounter)

\* createId() returns idCounter + 1 for the new project.
HandleCreateProject ==
  \E choice \in DraftAnswers :
    \E d \in {resolveProjectDraftBeforeContinue(choice)} :
      IF d.resolution = "cancel" THEN CancelStep("draftCancelled", d)
      ELSE /\ Len(workspace.projects) < MaxProjects
           /\ Settle("createProject", KindOf(d.resolution),
                     AfterDraft(d, createNewProject(d.r.workspace,
                                                    idCounter + 1, now + 1)),
                     isStructureEditMode, d.draft, idCounter + 1)

\* createNewVersion duplicates the activeProject of the render the handler
\* was created in: a draft saved by this handler is not in it.
HandleCreateProjectVersion ==
  \E choice \in DraftAnswers :
    \E d \in {resolveProjectDraftBeforeContinue(choice)} :
      IF d.resolution = "cancel" THEN CancelStep("draftCancelled", d)
      ELSE /\ Len(workspace.projects) < MaxProjects
           /\ Settle("createProjectVersion", KindOf(d.resolution),
                     AfterDraft(d, createNewVersion(d.r.workspace,
                                                    activeProject(workspace),
                                                    idCounter + 1, now + 1)),
                     isStructureEditMode, d.draft, idCounter + 1)

\* workspace.projects.length is read from the render the handler was
\* created in.
HandleRequestDeleteProject ==
  \E choice \in DraftAnswers, deleteChoice \in DialogChoices :
    \E d \in {resolveProjectDraftBeforeContinue(choice)} :
      IF d.resolution = "cancel" THEN CancelStep("draftCancelled", d)
      ELSE IF Len(workspace.projects) > 1 /\ deleteChoice # "confirm"
      THEN CancelStep("choiceCancelled", d)
      ELSE Settle("requestDeleteProject", KindOf(d.resolution),
                  AfterDraft(d, IF Len(workspace.projects) <= 1
                                THEN d.r.workspace
                                ELSE deleteActiveProject(d.r.workspace)),
                  isStructureEditMode, d.draft, idCounter)

\* handleExportBoard changes nothing but what resolving the draft changes:
\* the payload goes to a download.
HandleExportBoard ==
  \E choice \in DraftAnswers :
    \E d \in {resolveProjectDraftBeforeContinue(choice)} :
      IF d.resolution = "cancel" THEN CancelStep("draftCancelled", d)
      ELSE Settle("exportBoard", KindOf(d.resolution), d.r,
                  isStructureEditMode, d.draft, idCounter)

\* The store's deleteActiveProject called on its own.
DeleteActiveProject ==
  Settle("deleteActiveProject", "none",
         [workspace |-> deleteActiveProject(workspace),
          undoStack |-> undoStack, redoStack |-> redoStack],
         isStructureEditMode, projectDraft, idCounter)

HandleUndo ==
  Settle("undo", IF Len(undoStack) = 0 THEN "none" ELSE "undo",
         handleUndo(workspace, undoStack, redoStack, now + 1),
         isStructureEditMode, projectDraft, idCounter)

HandleRedo ==
  Settle("redo", IF Len(redoStack) = 0 THEN "none" ELSE "redo",
         handleRedo(workspace, undoStack, redoStack, now + 1),
         isStructureEditMode, projectDraft, idCounter)

-----------------------------------------------------------------------------
(* Structural editing (App.tsx).                                           *)

canChangeTemplate == countProjectCards(activeProject(workspace)) = 0

ColumnLabels(template) ==
  [i \in DOMAIN template.columns |-> template.columns[i].label]

LayerDefinitions(template) ==
  [i \in DOMAIN template.layers |->
     [label |-> template.layers[i].label,
      description |-> template.layers[i].description]]

\* toEditableCustomTemplate building the template from the labels as they
\* are, without createCustomTemplate's normalization.
toEditableCustomTemplateAsGiven(currentTemplate, nextColumnLabels, nextLayerDefinitions, uuid) ==
  Some([id |-> <<"custom", "-", ToString(uuid)>>,
        name |-> currentTemplate.name,
        columns |-> labelColumnsFrom(nextColumnLabels, 1),
        layers |-> labelLayersFrom(nextLayerDefinitions, 1)])

toEditableCustomTemplate(currentTemplate, nextColumnLabels, nextLayerDefinitions, uuid) ==
  createCustomTemplate(IF currentTemplate.name = EmptyStr
                       THEN DefaultTemplateName ELSE currentTemplate.name,
                       nextColumnLabels, nextLayerDefinitions, uuid)

\* withTemplate leaving the rows of the project as they are.
withTemplateKeepingRows(currentProject, template) ==
  [currentProject EXCEPT !.templateId = template.id,
                         !.template = template]

\* The updater of an accepted structural change.
withTemplate(currentProject, template) ==
  [currentProject EXCEPT !.templateId = template.id,
                         !.template = template,
                         !.rows = createInitialBoard(template)]

\* applyTemplateStructureChange without the canChangeTemplate test.
applyTemplateStructureChangeUngated(name, nextColumnLabels, nextLayerDefinitions) ==
  \E customTemplate \in
       {toEditableCustomTemplate(activeProject(workspace).template,
                                 nextColumnLabels, nextLayerDefinitions,
                                 idCounter + 1)} :
    IF ~customTemplate.ok THEN NoOpStep(name)
    ELSE Settle(name, "commit",
                updateActiveProjectWithHistory(
                  workspace, undoStack, redoStack,
                  LAMBDA p : withTemplate(p, customTemplate.value),
                  now + 1),
                isStructureEditMode, projectDraft, idCounter + 1)

\* applyTemplateStructureChange putting the classic template in place of a
\* structure that createCustomTemplate rejects.
applyTemplateStructureChangeFallback(name, nextColumnLabels, nextLayerDefinitions) ==
  IF ~canChangeTemplate THEN NoOpStep(name)
  ELSE \E customTemplate \in
            {toEditableCustomTemplate(activeProject(workspace).template,
                                      nextColumnLabels, nextLayerDefinitions,
                                      idCounter + 1)} :
         Settle(name, "commit",
                updateActiveProjectWithHistory(
                  workspace, undoStack, redoStack,
                  LAMBDA p : withTemplate(p, IF customTemplate.ok
                                             THEN customTemplate.value
                                             ELSE CLASSIC_BOARD_TEMPLATE),
                  now + 1),
                isStructureEditMode, projectDraft, idCounter + 1)

\* createId() returns idCounter + 1 for the custom template.
applyTemplateStructureChange(name, nextColumnLabels, nextLayerDefinitions) ==
  IF ~canChangeTemplate THEN NoOpStep(name)
  ELSE \E customTemplate \in
            {toEditableCustomTemplate(activeProject(workspace).template,
                                      nextColumnLabels, nextLayerDefinitions,
                                      idCounter + 1)} :
         IF ~customTemplate.ok THEN NoOpStep(name)
         ELSE Settle(name, "commit",
                     updateActiveProjectWithHistory(
                       workspace, undoStack, redoStack,
                       LAMBDA p : withTemplate(p, customTemplate.value),
                       now + 1),
                     isStructureEditMode, projectDraft, idCounter + 1)

RenameLabels == {<<"B">>, <<" ">>}

HandleRenameColumn ==
  \E columnId \in ShownColumns, label \in RenameLabels :
    \E activeTemplate \in {activeProject(workspace).template} :
      IF Trim(label) = EmptyStr THEN NoOpStep("renameColumn")
      ELSE applyTemplateStructureChange(
             "renameColumn",
             [i \in DOMAIN activeTemplate.columns |->
                IF activeTemplate.columns[i].id = columnId THEN Trim(label)
                ELSE activeTemplate.columns[i].label],
             LayerDefinitions(activeTemplate))

HandleRenameLayer ==
  \E rowIndex \in 1..MaxSlotRow, field \in {"title", "description"},
     value \in RenameLabels :
    \E activeTemplate \in {activeProject(workspace).template} :
      IF rowIndex \notin DOMAIN activeTemplate.layers
      THEN NoOpStep("renameLayer")
      ELSE IF field = "title" /\ Trim(value) = EmptyStr
      THEN NoOpStep("renameLayer")
      ELSE applyTemplateStructureChange(
             "renameLayer",
             ColumnLabels(activeTemplate),
             [i \in DOMAIN activeTemplate.layers |->
                IF i = rowIndex
                THEN [label |-> IF field = "title" THEN Trim(value)
                                ELSE activeTemplate.layers[i].label,
                      description |->
                        IF field = "description" THEN Trim(value)
                        ELSE activeTemplate.layers[i].description]
                ELSE [label |-> activeTemplate.layers[i].label,
                      description |-> activeTemplate.layers[i].description]])

HandleAddColumn ==
  \E activeTemplate \in {activeProject(workspace).template} :
    applyTemplateStructureChange(
      "addColumn",
      Append(ColumnLabels(activeTemplate),
             <<"Nova", " ", "coluna", " ",
               ToString(Len(activeTemplate.columns) + 1)>>),
      LayerDefinitions(activeTemplate))

HandleRemoveColumn ==
  \E columnId \in ShownColumns :
    \E activeTemplate \in {activeProject(workspace).template} :
      \E kept \in {SelectSeq(activeTemplate.columns,
                            LAMBDA column : column.id # columnId)} :
        applyTemplateStructureChange(
          "removeColumn",
          [i \in DOMAIN kept |-> kept[i].label],
          LayerDefinitions(activeTemplate))

HandleAddLayer ==
  \E activeTemplate \in {activeProject(workspace).template} :
    applyTemplateStructureChange(
      "addLayer",
      ColumnLabels(activeTemplate),
      Append(LayerDefinitions(activeTemplate),
             [label |-> <<"Nova", " ", "camada", " ",
                          ToString(Len(activeTemplate.layers) + 1)>>,
              description |-> <<"Descreva esta camada.">>]))

\* The button is rendered on the rows of the board: rowIndex is the index of
\* one of them.
HandleRemoveLayer ==
  \E rowIndex \in ShownRows :
    \E activeTemplate \in {activeProject(workspace).template} :
      applyTemplateStructureChange(
        "removeLayer",
        ColumnLabels(activeTemplate),
        IF rowIndex \in DOMAIN activeTemplate.layers
        THEN RemoveAt(LayerDefinitions(activeTemplate), rowIndex)
        ELSE LayerDefinitions(activeTemplate))

CUSTOM_TEMPLATE_SELECTOR_ID == <<"custom">>

getBuiltInTemplateById(templateId) ==
  With(FindIndex(getBuiltInTemplates, LAMBDA t : t.id = templateId),
       LAMBDA i : IF i = 0 THEN None ELSE Some(getBuiltInTemplates[i]))

HandleChangeTemplate ==
  \E templateId \in {CUSTOM_TEMPLATE_SELECTOR_ID, CLASSIC_BOARD_TEMPLATE_ID} :
    \E activeTemplate \in {activeProject(workspace).template},
       nextTemplate \in {getBuiltInTemplateById(templateId)} :
      IF ~canChangeTemplate THEN NoOpStep("changeTemplate")
      ELSE IF templateId = CUSTOM_TEMPLATE_SELECTOR_ID
      THEN applyTemplateStructureChange("changeTemplate",
                                        ColumnLabels(activeTemplate),
                                        LayerDefinitions(activeTemplate))
      ELSE IF ~nextTemplate.ok \/ nextTemplate.value.id = activeTemplate.id
      THEN NoOpStep("changeTemplate")
      ELSE CommitStep("changeTemplate",
                      LAMBDA p : withTemplate(p, nextTemplate.value))

HandleToggleStructureEditMode ==
  IF isStructureEditMode
  THEN Settle("toggleStructureEditMode", "none", Current, FALSE,
              projectDraft, idCounter)
  ELSE IF ~canChangeTemplate THEN NoOpStep("toggleStructureEditMode")
  ELSE Settle("toggleStructureEditMode", "none", Current, TRUE,
              projectDraft, idCounter)

-----------------------------------------------------------------------------
(* Import (App.tsx).  A file is text JSON.parse rejects, a bare array of   *)
(* rows, or an object; an object field of the wrong type is absent.        *)

\* The document handleExportBoard writes for a project, as parsed back.
ExportPayload(project) ==
  [kind |-> "object",
   rows |-> Some(project.rows),
   projectName |-> project.name,
   focalProblem |-> project.focalProblem,
   author |-> project.author,
   projectVersion |-> project.version,
   templateId |-> project.templateId,
   template |-> project.template,
   cardOrder |-> Some(buildCardOrder(project.rows))]

\* The template the import reads out of the file; uuid is the id
\* createCustomTemplate draws.
importedTemplateOf(file, uuid) ==
  With(IF file.kind = "object" /\ "templateId" \in DOMAIN file
       THEN getBuiltInTemplateById(file.templateId) ELSE None,
       LAMBDA byId :
  With(IF byId.ok THEN byId.value ELSE CLASSIC_BOARD_TEMPLATE,
       LAMBDA fromId :
    IF file.kind = "object" /\ "template" \in DOMAIN file
    THEN With(createCustomTemplate(
                IF "name" \in DOMAIN file.template
                THEN file.template.name
                ELSE <<"Modelo", " ", "importado">>,
                SelectSeq([i \in DOMAIN file.template.columns |->
                             file.template.columns[i].label],
                          LAMBDA label : label # EmptyStr),
                [i \in DOMAIN SelectSeq(file.template.layers,
                                        LAMBDA layer :
                                          layer.label # EmptyStr) |->
                   [label |-> SelectSeq(file.template.layers,
                                        LAMBDA layer :
                                          layer.label # EmptyStr)[i].label,
                    description |-> EmptyStr]],
                uuid),
              LAMBDA maybeCustomTemplate :
                IF maybeCustomTemplate.ok THEN maybeCustomTemplate.value
                ELSE fromId)
    ELSE fromId))

\* importedProjectPayload?.rows ?? parsed
candidateRowsOf(file) ==
  IF file.kind = "array" THEN Some(file.items)
  ELSE IF "rows" \in DOMAIN file THEN file.rows
  ELSE None

importedRowsOf(file, importedTemplate) ==
  With(parseBoardRows(candidateRowsOf(file), importedTemplate),
       LAMBDA first :
  With(IF first.ok THEN first
       ELSE parseBoardRows(candidateRowsOf(file), CLASSIC_BOARD_TEMPLATE),
       LAMBDA normalizedRows :
         IF ~normalizedRows.ok THEN None
         ELSE Some(applyCardOrder(normalizedRows.value,
                                  IF file.kind = "object"
                                     /\ "cardOrder" \in DOMAIN file
                                  THEN file.cardOrder ELSE None))))

HasField(file, field) == file.kind = "object" /\ field \in DOMAIN file

importAsNewPayload(file, importedTemplate, rows) ==
  With([focalProblem |-> IF HasField(file, "focalProblem")
                         THEN file.focalProblem ELSE EmptyStr,
        author |-> IF HasField(file, "author") THEN file.author
                   ELSE EmptyStr,
        version |-> IF HasField(file, "projectVersion")
                    THEN file.projectVersion ELSE 1,
        versionFraction |-> HasField(file, "projectVersionFraction"),
        template |-> importedTemplate,
        rows |-> rows],
       LAMBDA base :
         IF HasField(file, "projectName")
         THEN [name |-> file.projectName,
               focalProblem |-> base.focalProblem, author |-> base.author,
               version |-> base.version,
               versionFraction |-> base.versionFraction,
               template |-> base.template,
               rows |-> base.rows]
         ELSE base)

importOverwriteUpdater(currentProject, file, importedTemplate, rows) ==
  [currentProject EXCEPT
     !.name = IF HasField(file, "projectName") THEN file.projectName
              ELSE currentProject.name,
     !.focalProblem = IF HasField(file, "focalProblem")
                      THEN file.focalProblem
                      ELSE currentProject.focalProblem,
     !.author = IF HasField(file, "author") THEN file.author
                ELSE currentProject.author,
     !.version = IF HasField(file, "projectVersion")
                    /\ IsPositiveNumber(
                         file.projectVersion,
                         HasField(file, "projectVersionFraction"))
                 THEN file.projectVersion ELSE currentProject.version,
     !.templateId = importedTemplate.id,
     !.template = importedTemplate,
     !.rows = rows]

\* A document whose template names the same column twice and a layer with
\* a blank label, with rows for the one column and the one layer left.
RepeatedColumnFile ==
  [kind |-> "object",
   rows |-> Some(<<[layerId |-> <<"a">>, layerLabel |-> <<"A">>,
                    layerDescription |-> EmptyStr,
                    cards |-> [c \in {<<"a">>} |->
                                 <<[id |-> 205, content |-> <<"i">>,
                                    color |-> "pink"]>>]]>>),
   template |-> [name |-> <<"Modelo">>,
                 columns |-> <<[label |-> <<"A">>], [label |-> <<"A">>]>>,
                 layers |-> <<[label |-> <<"A">>], [label |-> <<" ">>]>>]]

\* A document of the classic layout whose projectVersion is 0.5 and whose
\* projectName begins with a blank.
HalfVersionFile ==
  [kind |-> "object", projectName |-> <<" ", "B">>, projectVersion |-> 0,
   projectVersionFraction |-> TRUE,
   rows |-> Some(createInitialBoard(CLASSIC_BOARD_TEMPLATE))]

ImportFiles ==
  {[kind |-> "malformed"],
   ExportPayload(workspace.projects[1]),
   [kind |-> "array", items |-> activeProject(workspace).rows],
   RepeatedColumnFile,
   HalfVersionFile}

ImportChoices == {"new-project", "overwrite", "cancel"}

\* importRefused that leaves the active project with an empty board.
importRefusedResetting(d) ==
  updateActiveProjectWithHistory(
    d.r.workspace, d.r.undoStack, d.r.redoStack,
    LAMBDA p : [p EXCEPT !.rows = createInitialBoard(p.template)], now + 1)

\* handleImportBoard on a document it refuses (JSON.parse throws, or the
\* rows parse under neither template): an information dialog is shown and
\* the handler returns.  d is the resolved draft.
importRefused(d) == d.r

HandleImportBoard ==
  \E file \in ImportFiles, choice \in DraftAnswers,
     importChoice \in ImportChoices :
    \E d \in {resolveProjectDraftBeforeContinue(choice)},
       importedTemplate \in {importedTemplateOf(file, idCounter + 1)} :
      \E rows \in {importedRowsOf(file, importedTemplate)} :
        IF d.resolution = "cancel" THEN CancelStep("draftCancelled", d)
        ELSE IF file.kind = "malformed" \/ ~rows.ok
        THEN Settle("importRejected", KindOf(d.resolution), importRefused(d),
                    isStructureEditMode, d.draft, idCounter)
        ELSE IF importChoice = "cancel"
        THEN CancelStep("choiceCancelled", d)
        ELSE IF importChoice = "new-project"
        THEN /\ Len(workspace.projects) < MaxProjects
             /\ Settle("importAsNew", KindOf(d.resolution),
                       AfterDraft(d, importProjectAsNew(
                                       d.r.workspace,
                                       importAsNewPayload(file,
                                                          importedTemplate,
                                                          rows.value),
                                       idCounter + 2, now + 1)),
                       isStructureEditMode, d.draft, idCounter + 2)
        ELSE Settle("importOverwrite",
                    IF d.resolution = "saved" THEN "commit2" ELSE "commit",
                    updateActiveProjectWithHistory(
                      d.r.workspace, d.r.undoStack, d.r.redoStack,
                      LAMBDA p : importOverwriteUpdater(p, file,
                                                        importedTemplate,
                                                        rows.value),
                      now + 1),
                    isStructureEditMode, d.draft, idCounter + 1)

-----------------------------------------------------------------------------
(* What the browser's storage may hold when the application starts.        *)

OneCardRows ==
  [createInitialBoard(CLASSIC_BOARD_TEMPLATE) EXCEPT
     ![1].cards[<<"stakeholders">>] =
        <<[id |-> 201, content |-> <<"s">>, color |-> "blue"]>>]

StoredAlfa ==
  [id |-> 101, name |-> <<"Alfa">>, focalProblem |-> <<"f">>,
   author |-> EmptyStr, version |-> 1, createdAt |-> 0, updatedAt |-> 0,
   templateId |-> CLASSIC_BOARD_TEMPLATE_ID,
   template |-> CLASSIC_BOARD_TEMPLATE, rows |-> OneCardRows]

StoredBeta ==
  [id |-> 102, name |-> <<"Beta">>, focalProblem |-> EmptyStr,
   author |-> EmptyStr, version |-> 2, createdAt |-> 0, updatedAt |-> 0,
   templateId |-> CLASSIC_BOARD_TEMPLATE_ID,
   template |-> CLASSIC_BOARD_TEMPLATE,
   rows |-> createInitialBoard(CLASSIC_BOARD_TEMPLATE)]

\* A persisted project whose id repeats the id of StoredAlfa.
StoredGama ==
  [id |-> 101, name |-> <<"Gama">>, focalProblem |-> EmptyStr,
   author |-> EmptyStr, version |-> 1, createdAt |-> 0, updatedAt |-> 0,
   templateId |-> CLASSIC_BOARD_TEMPLATE_ID,
   template |-> CLASSIC_BOARD_TEMPLATE,
   rows |-> createInitialBoard(CLASSIC_BOARD_TEMPLATE)]

\* A project persisted before templates and versions existed: blank name,
\* version 0, no template, rows in the legacy layout.
StoredOld ==
  [id |-> 103, name |-> <<" ">>, focalProblem |-> EmptyStr,
   author |-> EmptyStr, version |-> 0, createdAt |-> 0, updatedAt |-> 0,
   rows |-> <<[layerId |-> <<"informal">>,
               stakeholders |-> <<[id |-> 202, content |-> <<"t">>]>>,
               issues |-> << >>, ideas |-> << >>],
              [layerId |-> <<"formal">>, stakeholders |-> << >>,
               issues |-> << >>, ideas |-> << >>],
              [layerId |-> <<"technical">>, stakeholders |-> << >>,
               issues |-> << >>, ideas |-> << >>]>>]

\* What the two storage keys hold at start-up.
StoredNothing == [workspace |-> StorageAbsent, legacy |-> StorageAbsent]

StoredTwoProjects ==
  [workspace |-> StorageJson(Some([activeProjectId |-> 101,
                                   projects |-> <<StoredAlfa, StoredBeta>>])),
   legacy |-> StorageAbsent]

\* The activeProjectId names no project; the second project predates
\* templates.
StoredStaleActive ==
  [workspace |-> StorageJson(Some([activeProjectId |-> 999,
                                   projects |-> <<StoredBeta, StoredOld>>])),
   legacy |-> StorageMalformed]

\* Two of the three projects carry the same id.
StoredRepeatedId ==
  [workspace |-> StorageJson(Some([activeProjectId |-> 101,
                                   projects |->
                                     <<StoredBeta, StoredAlfa, StoredGama>>])),
   legacy |-> StorageAbsent]

\* A board stored under the legacy key only.
StoredLegacyOnly ==
  [workspace |-> StorageMalformed,
   legacy |-> StorageJson([shape |-> "array", items |-> StoredOld.rows])]

StoredStates ==
  {StoredNothing, StoredTwoProjects, StoredStaleActive, StoredRepeatedId,
   StoredLegacyOnly}

\* loadWorkspace() at start-up, for each of the stored states; createId()
\* returns 1 and the clock reads 0.
LoadedAtStart == [stored \in StoredStates |-> loadWorkspace(stored, 1, 0)]

\* The application as it stands once it has loaded a stored state, rendered
\* and persisted the workspace.
Started ==
  [stored \in StoredStates |->
     [workspace |-> LoadedAtStart[stored], undoStack |-> << >>,
      redoStack |-> << >>,
      storage |-> saveWorkspace(stored, LoadedAtStart[stored])]]

\* The application after the card of the first project was recoloured (at
\* time 1) and edited (at time 2) and the edit undone (at time 3): both
\* stacks hold a snapshot.
StartedMidway ==
  With(updateActiveProjectWithHistory(
         LoadedAtStart[StoredTwoProjects], << >>, << >>,
         LAMBDA p : changeCardColorUpdater(p, 1, <<"stakeholders">>, 201,
                                           "green"),
         1),
       LAMBDA recoloured :
  With(updateActiveProjectWithHistory(
         recoloured.workspace, recoloured.undoStack, recoloured.redoStack,
         LAMBDA p : saveEditedCardUpdater(p, 1, <<"stakeholders">>, 201,
                                          <<"e">>),
         2),
       LAMBDA edited :
  With(handleUndo(edited.workspace, edited.undoStack, edited.redoStack, 3),
       LAMBDA undone :
         [workspace |-> undone.workspace, undoStack |-> undone.undoStack,
          redoStack |-> undone.redoStack,
          storage |-> saveWorkspace(StoredTwoProjects, undone.workspace)])))

\* A persisted project on a custom template of one column and one layer,
\* without cards.
StoredUno ==
  [id |-> 104, name |-> <<"Uno">>, focalProblem |-> EmptyStr,
   author |-> EmptyStr, version |-> 1, createdAt |-> 0, updatedAt |-> 0,
   templateId |-> <<"custom", "-", "7">>,
   template |-> [id |-> <<"custom", "-", "7">>, name |-> <<"Modelo">>,
                 columns |-> <<[id |-> <<"a">>, label |-> <<"A">>]>>,
                 layers |-> <<[id |-> <<"a">>, label |-> <<"A">>,
                               description |-> EmptyStr]>>],
   rows |-> <<[layerId |-> <<"a">>, layerLabel |-> <<"A">>,
               layerDescription |-> EmptyStr,
               cards |-> [c \in {<<"a">>} |-> << >>]]>>]

StoredOneByOne ==
  [workspace |-> StorageJson(Some([activeProjectId |-> 104,
                                   projects |-> <<StoredUno, StoredAlfa>>])),
   legacy |-> StorageAbsent]

\* The application once it has loaded StoredOneByOne.
StartedOneByOne ==
  With(loadWorkspace(StoredOneByOne, 1, 0), LAMBDA loaded :
    [workspace |-> loaded, undoStack |-> << >>, redoStack |-> << >>,
     storage |-> saveWorkspace(StoredOneByOne, loaded)])

NoMove == [phase |-> "off"]

\* The application in one of the given states with the clock at start and
\* no handler running.
InitFrom(starts, start) ==
  \E s \in starts :
    /\ workspace = s.workspace
    /\ undoStack = s.undoStack
    /\ redoStack = s.redoStack
    /\ isStructureEditMode = FALSE
    /\ projectDraft = Metadata(activeProject(s.workspace))
    /\ storage = s.storage
    /\ now = start
    /\ idCounter = 1
    /\ lastOp = [name |-> "load", kind |-> "none", switched |-> FALSE]
    /\ hist = NoHistory

\* Every handler, from every stored state, BroadDepth handlers deep.
Init ==
  /\ InitFrom({Started[stored] : stored \in StoredStates} \cup {StartedMidway},
              MaxClock - BroadDepth)
  /\ mv = NoMove

Next ==
  \/ HandleSaveCard
  \/ HandleRequestDeleteCard
  \/ HandleSaveEditedCard
  \/ HandleChangeCardColor
  \/ HandleRequestResetBoard
  \/ HandleCellDrop
  \/ HandleCardDrop
  \/ ChangeProjectDraftField
  \/ SaveProjectDraft
  \/ CancelProjectDraft
  \/ HandleSelectProject
  \/ HandleCreateProject
  \/ HandleCreateProjectVersion
  \/ HandleRequestDeleteProject
  \/ HandleExportBoard
  \/ DeleteActiveProject
  \/ HandleUndo
  \/ HandleRedo
  \/ HandleRenameColumn
  \/ HandleRenameLayer
  \/ HandleAddColumn
  \/ HandleRemoveColumn
  \/ HandleAddLayer
  \/ HandleRemoveLayer
  \/ HandleChangeTemplate
  \/ HandleToggleStructureEditMode
  \/ HandleImportBoard

Spec == Init /\ [][Next]_vars

\* The store's project operations with a metadata save, undo and redo,
\* ProjectsDepth handlers deep.
InitProjects ==
  /\ InitFrom({Started[StoredNothing], Started[StoredTwoProjects],
               Started[StoredRepeatedId]},
              MaxClock - ProjectsDepth)
  /\ mv = NoMove

NextProjects ==
  \/ HandleSelectProject
  \/ HandleCreateProject
  \/ HandleCreateProjectVersion
  \/ HandleRequestDeleteProject
  \/ DeleteActiveProject
  \/ HandleImportBoard
  \/ ChangeProjectDraftField
  \/ SaveProjectDraft
  \/ HandleUndo
  \/ HandleRedo

SpecProjects == InitProjects /\ [][NextProjects]_vars

\* The structural edits and the structure edit mode, with card additions
\* and deletions, project switches, imports, undo and redo, StructureDepth
\* handlers deep.
InitStructure ==
  /\ InitFrom({StartedOneByOne, Started[StoredTwoProjects]},
              MaxClock - StructureDepth)
  /\ mv = NoMove

NextStructure ==
  \/ HandleRenameColumn
  \/ HandleRenameLayer
  \/ HandleAddColumn
  \/ HandleRemoveColumn
  \/ HandleAddLayer
  \/ HandleRemoveLayer
  \/ HandleChangeTemplate
  \/ HandleToggleStructureEditMode
  \/ HandleSaveCard
  \/ HandleRequestDeleteCard
  \/ HandleSelectProject
  \/ HandleImportBoard
  \/ HandleUndo
  \/ HandleRedo

SpecStructure == InitStructure /\ [][NextStructure]_vars

\* Card edits and deletions, board reset and metadata saves with undo and
\* redo, MaxClock handlers deep.
InitHistory == InitFrom({Started[StoredTwoProjects]}, 0) /\ mv = NoMove

NextHistory ==
  \/ HandleSaveEditedCard
  \/ HandleChangeCardColor
  \/ HandleRequestDeleteCard
  \/ HandleRequestResetBoard
  \/ ChangeProjectDraftField
  \/ SaveProjectDraft
  \/ HandleUndo
  \/ HandleRedo

SpecHistory == InitHistory /\ [][NextHistory]_vars

-----------------------------------------------------------------------------
(* moveCardToTarget on its own: a board is drawn, then one drop is applied *)
(* to it, by the current hook and by its earlier variant.                  *)

MoveRows == 1..2

MoveColumns == {<<"stakeholders">>, <<"issues">>}

MoveColors == <<"yellow", "pink", "blue", "green">>

\* Card n as createId() and the composer leave it.
MoveCard(n) ==
  [id |-> 200 + n, content |-> <<"c", n>>, color |-> MoveColors[n]]

\* The boards holding cards 1..n or fewer, each card in any slot, before or
\* after the cards already there.
RECURSIVE MoveBoards(_)
MoveBoards(n) ==
  IF n = 0 THEN {createInitialBoard(CLASSIC_BOARD_TEMPLATE)}
  ELSE MoveBoards(n - 1)
       \cup {[b EXCEPT ![r].cards[c] =
                IF front THEN <<MoveCard(n)>> \o b[r].cards[c]
                ELSE Append(b[r].cards[c], MoveCard(n))] :
               <<b, r, c, front>> \in
                 MoveBoards(n - 1) \X MoveRows \X MoveColumns \X BOOLEAN}

\* Every card of the board, row by row and column by column.
RECURSIVE CardsOfColumns(_, _)
CardsOfColumns(row, columns) ==
  IF columns = {} THEN << >>
  ELSE LET c == CHOOSE x \in columns : TRUE
       IN row.cards[c] \o CardsOfColumns(row, columns \ {c})

RECURSIVE AllCards(_)
AllCards(rows) ==
  IF rows = << >> THEN << >>
  ELSE CardsOfColumns(Head(rows), DOMAIN Head(rows).cards)
       \o AllCards(Tail(rows))

\* A drag started on a card of the board; the slot it names may be stale.
MovePayloads(rows) ==
  {[cardId |-> AllCards(rows)[k].id, fromRowIndex |-> r, fromColumnId |-> c] :
     <<k, r, c>> \in (DOMAIN AllCards(rows)) \X MoveRows \X MoveColumns}

Moved(variant, payload, toRowIndex, toColumnId, target, placement, result) ==
  [phase |-> "moved", variant |-> variant, rows |-> mv.rows,
   payload |-> payload, toRowIndex |-> toRowIndex,
   toColumnId |-> toColumnId, target |-> target, placement |-> placement,
   result |-> result]

InitMove ==
  /\ InitFrom({Started[StoredTwoProjects]}, 0)
  /\ \E b \in MoveBoards(MaxMoveCards) : mv = [phase |-> "board", rows |-> b]

\* handleCellDrop: no target card.
MoveOnCell ==
  /\ mv.phase = "board"
  /\ \E payload \in MovePayloads(mv.rows), toRowIndex \in MoveRows,
        toColumnId \in MoveColumns :
       mv' = Moved("cell", payload, toRowIndex, toColumnId, None, "before",
                   moveCardToTarget(mv.rows, payload, toRowIndex, toColumnId,
                                    None, "before"))
  /\ UNCHANGED appVars

\* handleCardDrop: dropped on a card of the destination slot.
MoveOnCard ==
  /\ mv.phase = "board"
  /\ \E payload \in MovePayloads(mv.rows), toRowIndex \in MoveRows,
        toColumnId \in MoveColumns, placement \in {"before", "after"} :
       \E target \in Range(mv.rows[toRowIndex].cards[toColumnId]) :
         mv' = Moved("card", payload, toRowIndex, toColumnId,
                     Some(target.id), placement,
                     moveCardToTarget(mv.rows, payload, toRowIndex,
                                      toColumnId, Some(target.id), placement))
  /\ UNCHANGED appVars

\* handleCellDrop of the earlier hook.
MoveAppend ==
  /\ mv.phase = "board"
  /\ \E payload \in MovePayloads(mv.rows), toRowIndex \in MoveRows,
        toColumnId \in MoveColumns :
       mv' = Moved("append", payload, toRowIndex, toColumnId, None, "before",
                   moveCardToTargetAppend(mv.rows, payload, toRowIndex,
                                          toColumnId))
  /\ UNCHANGED appVars

\* What a stale drag names: the id of a card deleted since the drag started,
\* a row index past either end of the rows, a column no longer in the
\* template.
StaleCardId == 299

StaleRows == {0, Len(createInitialBoard(CLASSIC_BOARD_TEMPLATE)) + 1}

StaleColumn == <<"gone">>

\* A drag started on a card of the board, in the slot the card is in.
DraggedCards(rows) ==
  {[cardId |-> rows[r].cards[c][k].id, fromRowIndex |-> r,
    fromColumnId |-> c] :
     <<r, c, k>> \in {<<r2, c2, k2>> \in MoveRows \X MoveColumns
                                          \X (1..MaxMoveCards) :
                        k2 <= Len(rows[r2].cards[c2])}}

\* handleCardDrop on a card that is not (or no longer) in the slot the drop
\* lands on.
MoveOnStaleTarget ==
  /\ mv.phase = "board"
  /\ \E payload \in DraggedCards(mv.rows), toRowIndex \in MoveRows,
        toColumnId \in MoveColumns, placement \in {"before", "after"} :
       \E target \in ({card.id : card \in Range(AllCards(mv.rows))}
                        \cup {StaleCardId})
                     \ {card.id :
                          card \in Range(mv.rows[toRowIndex].cards[toColumnId])} :
         mv' = Moved("staleTarget", payload, toRowIndex, toColumnId,
                     Some(target), placement,
                     moveCardToTarget(mv.rows, payload, toRowIndex,
                                      toColumnId, Some(target), placement))
  /\ UNCHANGED appVars

\* The card of the payload is in the slot the payload names.
InSourceSlot(rows, payload) ==
  /\ payload.fromRowIndex \in DOMAIN rows
  /\ payload.fromColumnId \in DOMAIN rows[payload.fromRowIndex].cards
  /\ \E card \in Range(rows[payload.fromRowIndex].cards[payload.fromColumnId]) :
       card.id = payload.cardId

\* The slot exists on the board.
IsSlot(rows, rowIndex, columnId) ==
  /\ rowIndex \in DOMAIN rows
  /\ columnId \in DOMAIN rows[rowIndex].cards

\* The drag of a card of the board after the board has changed under it: the
\* card was deleted, its row or its column is gone, or the row or the column
\* of the cell it is dropped on is gone.
StaleDrops(rows) ==
  UNION {
    {[payload |-> [p EXCEPT !.cardId = StaleCardId],
      toRowIndex |-> r, toColumnId |-> c] :
       <<r, c>> \in MoveRows \X MoveColumns}
    \cup {[payload |-> [p EXCEPT !.fromRowIndex = gone],
           toRowIndex |-> r, toColumnId |-> c] :
            <<gone, r, c>> \in StaleRows \X MoveRows \X MoveColumns}
    \cup {[payload |-> [p EXCEPT !.fromColumnId = StaleColumn],
           toRowIndex |-> r, toColumnId |-> c] :
            <<r, c>> \in MoveRows \X MoveColumns}
    \cup {[payload |-> p, toRowIndex |-> gone, toColumnId |-> c] :
            <<gone, c>> \in StaleRows \X MoveColumns}
    \cup {[payload |-> p, toRowIndex |-> r, toColumnId |-> StaleColumn] :
            r \in MoveRows} :
    p \in DraggedCards(rows)}

\* handleCellDrop with a payload or a destination that no longer matches the
\* board.
MoveStalePayload ==
  /\ mv.phase = "board"
  /\ \E drop \in StaleDrops(mv.rows) :
       mv' = Moved("stalePayload", drop.payload, drop.toRowIndex,
                   drop.toColumnId, None, "before",
                   moveCardToTarget(mv.rows, drop.payload, drop.toRowIndex,
                                    drop.toColumnId, None, "before"))
  /\ UNCHANGED appVars

NextMove ==
  \/ MoveOnCell
  \/ MoveOnCard
  \/ MoveAppend
  \/ MoveOnStaleTarget
  \/ MoveStalePayload

SpecMove == InitMove /\ [][NextMove]_vars

-----------------------------------------------------------------------------
(* buildCardOrder and applyCardOrder on their own: rows are drawn, then an *)
(* order map is applied to them, the one built from the rows themselves or *)
(* one supplied by an imported file.                                       *)

\* Card n of the drawn rows; two cards can carry the same id, as the rows of
\* an imported file can.
OrderCard(n, id) ==
  [id |-> id, content |-> <<"c", n>>, color |-> DEFAULT_POST_IT_COLOR]

OrderSlots == {<<1, <<"stakeholders">> >>, <<2, <<"stakeholders">> >>,
               <<1, <<"issues">> >>}

\* The rows holding cards 1..n or fewer, each appended to one of the slots.
RECURSIVE OrderBoards(_)
OrderBoards(n) ==
  IF n = 0 THEN {createInitialBoard(CLASSIC_BOARD_TEMPLATE)}
  ELSE OrderBoards(n - 1)
       \cup {[b EXCEPT ![slot[1]].cards[slot[2]] =
                Append(b[slot[1]].cards[slot[2]], OrderCard(n, id))] :
               <<b, slot, id>> \in
                 OrderBoards(n - 1) \X OrderSlots \X {200 + n, 201}}

\* The drawn rows, and the same rows with the second row carrying the layer
\* id of the first.
OrderRows ==
  OrderBoards(MaxOrderCards)
    \cup {[b EXCEPT ![2].layerId = b[1].layerId] :
            b \in OrderBoards(MaxOrderCards)}

\* The id lists a file can carry for a slot: listed, repeated and foreign
\* ids.
RECURSIVE OrderLists(_)
OrderLists(n) ==
  IF n = 0 THEN {<< >>}
  ELSE OrderLists(n - 1)
       \cup {Append(l, id) :
               <<l, id>> \in OrderLists(n - 1) \X {201, 202, 203, StaleCardId}}

\* The order maps applied: one list for a slot of the first row, or an entry
\* for a layer or a column the rows do not have.
SuppliedOrders ==
  {[l \in {<<"informal">>} |-> [c \in {<<"stakeholders">>} |-> list]] :
     list \in OrderLists(MaxOrderList)}
    \cup {[l \in {<<"gone">>} |-> [c \in {<<"stakeholders">>} |-> <<201>>]],
          [l \in {<<"informal">>} |-> [c \in {StaleColumn} |-> <<201>>]]}

Ordered(source, order, result) ==
  [phase |-> "ordered", source |-> source, rows |-> mv.rows,
   order |-> order, result |-> result]

InitOrder ==
  /\ InitFrom({Started[StoredTwoProjects]}, 0)
  /\ \E b \in OrderRows : mv = [phase |-> "rows", rows |-> b]

\* handleExportBoard's cardOrder given back to handleImportBoard.
ApplyBuiltOrder ==
  /\ mv.phase = "rows"
  /\ mv' = Ordered("built", buildCardOrder(mv.rows),
                   applyCardOrder(mv.rows, Some(buildCardOrder(mv.rows))))
  /\ UNCHANGED appVars

\* handleImportBoard with the cardOrder of the file.
ApplySuppliedOrder ==
  /\ mv.phase = "rows"
  /\ \E order \in SuppliedOrders :
       mv' = Ordered("supplied", order, applyCardOrder(mv.rows, Some(order)))
  /\ UNCHANGED appVars

NextOrder ==
  \/ ApplyBuiltOrder
  \/ ApplySuppliedOrder

SpecOrder == InitOrder /\ [][NextOrder]_vars

-----------------------------------------------------------------------------
(* normalizeTemplate on its own: a candidate is drawn, as an imported file *)
(* or the stored workspace can carry it, then normalized.                  *)

\* Column entries: a label only, an id of its own, an id that another
\* label slugs to, an id that slugs to nothing, a blank label, not an
\* object.
CandidateColumns ==
  {[label |-> <<"A">>], [label |-> <<" ", "B">>],
   [id |-> <<"a">>, label |-> <<"B">>], [id |-> <<"-">>, label |-> <<"A">>],
   [id |-> <<"b">>, label |-> <<" ">>], << >>}

CandidateLayers ==
  {[label |-> <<"A">>, description |-> <<" ", "B">>],
   [id |-> <<"A">>, label |-> <<"B">>], [id |-> <<"a">>, label |-> << >>]}

RECURSIVE SeqsUpTo(_, _)
SeqsUpTo(entries, n) ==
  IF n = 0 THEN {<< >>}
  ELSE SeqsUpTo(entries, n - 1)
       \cup {Append(s, e) : <<s, e>> \in SeqsUpTo(entries, n - 1) \X entries}

TemplateCandidates ==
  {None}
    \cup {Some([id |-> <<"Modelo", " ", "A">>, name |-> name,
                columns |-> columns, layers |-> layers]) :
            <<name, columns, layers>> \in
              {<<"Modelo">>, <<" ">>}
                \X SeqsUpTo(CandidateColumns, MaxTemplateColumns)
                \X SeqsUpTo(CandidateLayers, MaxTemplateLayers)}

InitTemplate ==
  /\ InitFrom({Started[StoredTwoProjects]}, 0)
  /\ \E candidate \in TemplateCandidates :
       mv = [phase |-> "candidate", template |-> candidate]

NormalizeTemplate ==
  /\ mv.phase = "candidate"
  /\ mv' = [phase |-> "normalized", template |-> mv.template,
            result |-> normalizeTemplate(mv.template)]
  /\ UNCHANGED appVars

\* createCustomTemplate with the labels of the candidate's entries.
CustomizeTemplate ==
  /\ mv.phase = "candidate"
  /\ mv.template.ok
  /\ mv' = [phase |-> "customized", template |-> mv.template,
            result |->
              createCustomTemplate(
                mv.template.value.name,
                [i \in DOMAIN mv.template.value.columns |->
                   IF "label" \in DOMAIN mv.template.value.columns[i]
                   THEN mv.template.value.columns[i].label ELSE EmptyStr],
                [i \in DOMAIN mv.template.value.layers |->
                   [label |-> mv.template.value.layers[i].label,
                    description |->
                      IF "description" \in DOMAIN mv.template.value.layers[i]
                      THEN mv.template.value.layers[i].description
                      ELSE EmptyStr]],
                idCounter)]
  /\ UNCHANGED appVars

NextTemplate ==
  \/ NormalizeTemplate
  \/ CustomizeTemplate

SpecTemplate == InitTemplate /\ [][NextTemplate]_vars

-----------------------------------------------------------------------------
(* Row parsing as a function of its arguments (lib/boardStorage.ts).       *)

MaxRowList == 3

\* A template of one column and two layers.
DuoTemplate ==
  [id |-> <<"custom", "-", "8">>, name |-> <<"Modelo">>,
   columns |-> <<[id |-> <<"a">>, label |-> <<"A">>]>>,
   layers |-> <<[id |-> <<"a">>, label |-> <<"A">>, description |-> EmptyStr],
                [id |-> <<"b">>, label |-> <<"B">>,
                 description |-> <<"d">>]>>]

RowTemplates == {CLASSIC_BOARD_TEMPLATE, StoredUno.template, DuoTemplate}

BlueCard == [id |-> 211, content |-> <<"s">>, color |-> "blue"]

\* A card persisted without a colour.
PlainCard == [id |-> 212, content |-> <<"t">>]

\* A card whose colour is none of POST_IT_COLORS.
RedCard == [id |-> 213, content |-> <<"u">>, color |-> "red"]

ClassicCards(cards) ==
  [c \in ColumnIds(CLASSIC_BOARD_TEMPLATE) |->
     IF c = <<"stakeholders">> THEN cards ELSE << >>]

\* Elements a persisted row array may hold: rows of the template-aware
\* layout and of the legacy layout, with known and unknown layer ids, with
\* and without well-formed cards.
PersistedRows ==
  {[layerId |-> <<"informal">>, cards |-> ClassicCards(<<BlueCard>>)],
   [layerId |-> <<"formal">>, layerDescription |-> <<"d">>,
    cards |-> ClassicCards(<<PlainCard>>)],
   [layerId |-> <<"technical">>, cards |-> ClassicCards(<<RedCard>>)],
   [layerId |-> <<"informal">>, stakeholders |-> <<PlainCard>>,
    issues |-> << >>, ideas |-> << >>],
   [layerId |-> <<"gone">>, stakeholders |-> << >>, issues |-> << >>,
    ideas |-> << >>],
   [layerId |-> <<"a">>, cards |-> [c \in {<<"a">>} |-> <<PlainCard>>]],
   [layerId |-> <<"b">>, cards |-> [c \in {<<"a">>} |-> <<RedCard>>]],
   [layerId |-> <<"b">>, cards |-> [c \in {<<"b">>} |-> << >>]],
   [cards |-> [c \in {<<"a">>} |-> << >>]]}

\* What parseBoardRows may be handed: not an array, or an array of rows.
RowValues ==
  {None} \cup {Some(rows) : rows \in SeqsUpTo(PersistedRows, MaxRowList)}

InitRows ==
  /\ InitFrom({Started[StoredTwoProjects]}, 0)
  /\ \E value \in RowValues, template \in RowTemplates :
       mv = [phase |-> "unparsed", value |-> value, template |-> template]

ParseBoardRows ==
  /\ mv.phase = "unparsed"
  /\ mv' = [phase |-> "parsed", value |-> mv.value, template |-> mv.template,
            result |-> parseBoardRows(mv.value, mv.template)]
  /\ UNCHANGED appVars

NextRows == ParseBoardRows

SpecRows == InitRows /\ [][NextRows]_vars

-----------------------------------------------------------------------------

(* Project normalisation as a function of its argument                     *)
(* (lib/boardStorage.ts).                                                  *)

\* A persisted project with the given name, version number, template (None
\* when the project has none) and rows; it has every field isProject asks
\* for.
PersistedProject(name, version, fractional, template, rows) ==
  [f \in {"id", "name", "focalProblem", "author", "version", "createdAt",
          "updatedAt", "rows"}
           \cup (IF fractional THEN {"versionFraction"} ELSE {})
           \cup (IF template.ok THEN {"templateId", "template"} ELSE {}) |->
     CASE f = "id" -> 105
       [] f = "name" -> name
       [] f = "focalProblem" -> EmptyStr
       [] f = "author" -> EmptyStr
       [] f = "version" -> version
       [] f = "versionFraction" -> TRUE
       [] f = "createdAt" -> 0
       [] f = "updatedAt" -> 0
       [] f = "templateId" -> template.value.id
       [] f = "template" -> template.value
       [] f = "rows" -> rows]

\* Name and version of a persisted project: version 2, version 0 with a
\* blank name, version 0.5.
PersistedHeads ==
  {<<<<"Alfa">>, 2, FALSE>>, <<<<" ">>, 0, FALSE>>, <<<<"Alfa">>, 0, TRUE>>}

\* A template that keeps the id of the classic template with one column and
\* one layer, and a template whose ids are not in normal form.
PersistedTemplates ==
  {None, Some(CLASSIC_BOARD_TEMPLATE), Some(StoredUno.template),
   Some(DuoTemplate),
   Some([id |-> CLASSIC_BOARD_TEMPLATE_ID, name |-> <<"Modelo">>,
         columns |-> <<[id |-> <<"a">>, label |-> <<"A">>]>>,
         layers |-> <<[id |-> <<"a">>, label |-> <<"A">>,
                       description |-> EmptyStr]>>]),
   Some([id |-> <<"Modelo", " ", "A">>, name |-> <<" ">>,
         columns |-> <<[label |-> <<"A">>],
                       [id |-> <<"a">>, label |-> <<"B">>]>>,
         layers |-> <<[id |-> <<"A">>, label |-> <<"B">>]>>])}

ProjectCandidates ==
  {PersistedProject(head[1], head[2], head[3], template, rows) :
     <<head, template, rows>> \in
       PersistedHeads \X PersistedTemplates
         \X SeqsUpTo(PersistedRows, MaxRowList)}

InitNormalize ==
  /\ InitFrom({Started[StoredTwoProjects]}, 0)
  /\ \E project \in ProjectCandidates :
       mv = [phase |-> "persisted", project |-> project]

NormalizeProject ==
  /\ mv.phase = "persisted"
  /\ isProject(mv.project)
  /\ mv' = [phase |-> "once", project |-> mv.project,
            once |-> normalizeProject(mv.project)]
  /\ UNCHANGED appVars

NormalizeProjectAgain ==
  /\ mv.phase = "once"
  /\ mv' = [phase |-> "twice", project |-> mv.project, once |-> mv.once,
            twice |-> normalizeProject(mv.once)]
  /\ UNCHANGED appVars

NextNormalize ==
  \/ NormalizeProject
  \/ NormalizeProjectAgain

SpecNormalize == InitNormalize /\ [][NextNormalize]_vars

-----------------------------------------------------------------------------

(* Loading as a function of what the two storage keys hold                 *)
(* (lib/boardStorage.ts).                                                  *)

MaxStoredProjects == 2

\* A persisted entry of the project list that isProject rejects.
StoredNameless == [id |-> 106, rows |-> << >>]

StoredProjectLists ==
  SeqsUpTo({StoredAlfa, StoredBeta, StoredOld, StoredUno, StoredNameless},
           MaxStoredProjects)

\* The workspace key: absent, text that is no JSON, a JSON value that is no
\* object, an object without a project list, and objects with a project
\* list and an activeProjectId that may name none of the projects.
WorkspaceContents ==
  {StorageAbsent, StorageMalformed, StorageJson(None),
   StorageJson(Some([activeProjectId |-> 101]))}
    \cup {StorageJson(Some([activeProjectId |-> active,
                            projects |-> projects])) :
            <<active, projects>> \in {101, 999} \X StoredProjectLists}

\* The legacy key: absent, text that is no JSON, a row array (usable or
\* not), an object with a rows array, and any other JSON value.
LegacyContents ==
  {StorageAbsent, StorageMalformed,
   StorageJson([shape |-> "array", items |-> StoredOld.rows]),
   StorageJson([shape |-> "array", items |-> <<StoredOld.rows[1]>>]),
   StorageJson([shape |-> "object", hasRows |-> TRUE,
                rows |-> Some(OneCardRows)]),
   StorageJson([shape |-> "object", hasRows |-> FALSE]),
   StorageJson([shape |-> "other"])}

StoredContents ==
  {[workspace |-> content, legacy |-> legacy] :
     <<content, legacy>> \in WorkspaceContents \X LegacyContents}

InitLoad ==
  /\ InitFrom({Started[StoredTwoProjects]}, 0)
  /\ \E stored \in StoredContents :
       mv = [phase |-> "stored", stored |-> stored]

LoadWorkspace ==
  /\ mv.phase = "stored"
  /\ mv' = [phase |-> "loaded", stored |-> mv.stored,
            loaded |-> loadWorkspace(mv.stored, idCounter, now)]
  /\ UNCHANGED appVars

NextLoad == LoadWorkspace

SpecLoad == InitLoad /\ [][NextLoad]_vars

-----------------------------------------------------------------------------

\* updateActiveProject on its own (useBoardWorkspace.ts 43-72), applied to
\* workspaces that the store can hold and to workspaces whose
\* activeProjectId is carried by no project or by several.
MaxUpdateProjects == 3

\* An id that no project carries.
UnknownProjectId == StoredNameless.id

UpdateProjects ==
  {LoadedAtStart[StoredRepeatedId].projects[i] : i \in 1..3}

UpdateWorkspaces ==
  {[activeProjectId |-> id, projects |-> projects] :
     id \in {p.id : p \in UpdateProjects} \cup {UnknownProjectId},
     projects \in SeqsUpTo(UpdateProjects, MaxUpdateProjects)}

\* The updaters the application passes: a new board (rows), new metadata
\* (saveProjectDraft) and a history snapshot (handleUndo, handleRedo).
UpdaterKinds == {"rows", "metadata", "snapshot"}

applyUpdater(kind, project) ==
  CASE kind = "rows" ->
         [project EXCEPT !.rows = OneCardRows]
    [] kind = "metadata" ->
         [project EXCEPT !.name = <<"Novo">>, !.author = <<"a">>]
    [] OTHER ->
         cloneProjectSnapshot(LoadedAtStart[StoredRepeatedId].projects[3])

InitUpdate ==
  /\ InitFrom({Started[StoredTwoProjects]}, MaxClock - 1)
  /\ \E ws \in UpdateWorkspaces, kind \in UpdaterKinds :
       mv = [phase |-> "held", ws |-> ws, updater |-> kind]

UpdateActiveProject ==
  /\ mv.phase = "held"
  /\ mv' = [phase |-> "updated", ws |-> mv.ws, updater |-> mv.updater,
            time |-> now + 1,
            result |-> updateActiveProject(
                         mv.ws, LAMBDA p : applyUpdater(mv.updater, p),
                         now + 1)]
  /\ UNCHANGED appVars

NextUpdate == UpdateActiveProject

SpecUpdate == InitUpdate /\ [][NextUpdate]_vars

-----------------------------------------------------------------------------

\* The card handlers, the drops, undo and redo, CardsDepth handlers deep,
\* from a project whose only card has an id of its own.
CardsDepth == 4

InitCards ==
  /\ InitFrom({Started[StoredTwoProjects]}, MaxClock - CardsDepth)
  /\ mv = NoMove

NextCards ==
  \/ HandleSaveCard
  \/ HandleSaveEditedCard
  \/ HandleChangeCardColor
  \/ HandleRequestDeleteCard
  \/ HandleRequestResetBoard
  \/ HandleCellDrop
  \/ HandleCardDrop
  \/ HandleUndo
  \/ HandleRedo

SpecCards == InitCards /\ [][NextCards]_vars

-----------------------------------------------------------------------------

\* The dialog hook (useAppDialog) with the handlers that wait on it.  Each
\* handler is a script of awaits: a dialog ("draft", "confirm", "import",
\* "info") or the read of the chosen file ("read").  calls lists the
\* promises openDialog has returned, each with the values its resolve was
\* called with; dialogState is the index of the promise whose resolve the
\* hook holds, 0 for null.
MaxOperations == 2
MaxDialogCalls == 3

\* handleRequestResetBoard / handleRequestDeleteCard; the structural edit
\* that is refused (showInfoDialog); handleRequestDeleteProject with an
\* edited draft; handleImportBoard with a clean draft.
HandlerScripts ==
  {<<"confirm">>, <<"info">>, <<"draft", "confirm">>, <<"read", "import">>}

DialogOptions ==
  [draft |-> {"save", "discard", "cancel"},
   confirm |-> {"confirm", "cancel"},
   import |-> {"new-project", "overwrite", "cancel"},
   info |-> {"ok"}]

DialogSteps(script) ==
  Cardinality({i \in DOMAIN script : script[i] # "read"})

RECURSIVE DialogStepsOf(_)
DialogStepsOf(operations) ==
  IF operations = << >> THEN 0
  ELSE DialogSteps(Head(operations).script)
       + DialogStepsOf(Tail(operations))

\* openDialog: a new promise whose resolve replaces whatever dialogState
\* held.
openDialog(d, kind) ==
  [d EXCEPT !.calls = Append(d.calls, [kind |-> kind, resolved |-> << >>]),
            !.dialogState = Len(d.calls) + 1]

\* The handler at index p runs from step pc to its next await.
RunTo(d, p, pc) ==
  LET script == d.operations[p].script
  IN IF pc > Len(script)
     THEN [d EXCEPT !.operations[p].pc = pc,
                    !.operations[p].waiting = "done"]
     ELSE IF script[pc] = "read"
     THEN [d EXCEPT !.operations[p].pc = pc,
                    !.operations[p].waiting = "read"]
     ELSE [openDialog(d, script[pc]) EXCEPT
             !.operations[p].pc = pc,
             !.operations[p].waiting = "dialog",
             !.operations[p].promise = Len(d.calls) + 1]

InitDialog ==
  /\ InitFrom({Started[StoredTwoProjects]}, 0)
  /\ mv = [phase |-> "dialogs", dialogState |-> 0, calls |-> << >>,
           operations |-> << >>]

\* The user starts a handler.  The modal traps focus and covers the page,
\* so no handler is started while a dialog is shown.
StartHandler ==
  /\ mv.dialogState = 0
  /\ Len(mv.operations) < MaxOperations
  /\ \E script \in HandlerScripts :
       /\ DialogStepsOf(mv.operations) + DialogSteps(script)
            <= MaxDialogCalls
       /\ mv' = RunTo([mv EXCEPT !.operations =
                         Append(mv.operations,
                                [script |-> script, pc |-> 0,
                                 waiting |-> "done", promise |-> 0])],
                      Len(mv.operations) + 1, 1)
  /\ UNCHANGED appVars

\* await file.text() of handleImportBoard completes and the handler goes
\* on, whatever the hook shows at that time.
FinishRead ==
  /\ \E p \in DOMAIN mv.operations :
       /\ mv.operations[p].waiting = "read"
       /\ mv' = RunTo(mv, p, mv.operations[p].pc + 1)
  /\ UNCHANGED appVars

\* closeDialog(value), from a button of the modal or from Escape: the
\* resolve held in dialogState is called and dialogState becomes null; the
\* handler that awaited the promise goes on (it returns on cancel).
CloseDialog ==
  /\ mv.dialogState # 0
  /\ \E value \in DialogOptions[mv.calls[mv.dialogState].kind]
                    \cup {"cancel"} :
       LET k == mv.dialogState
           closed == [mv EXCEPT !.dialogState = 0,
                                !.calls[k].resolved =
                                  Append(mv.calls[k].resolved, value)]
           waiters == {p \in DOMAIN mv.operations :
                         /\ mv.operations[p].waiting = "dialog"
                         /\ mv.operations[p].promise = k}
       IN \E p \in waiters :
            mv' = IF value = "cancel"
                  THEN [closed EXCEPT !.operations[p].waiting = "done"]
                  ELSE RunTo(closed, p, mv.operations[p].pc + 1)
  /\ UNCHANGED appVars

NextDialog ==
  \/ StartHandler
  \/ FinishRead
  \/ CloseDialog

\* The file read completes, and the user answers the dialog on screen.
SpecDialog ==
  /\ InitDialog
  /\ [][NextDialog]_vars
  /\ WF_vars(FinishRead)
  /\ WF_vars(CloseDialog)

-----------------------------------------------------------------------------

(* Properties.                                                             *)

RedoSymmetry ==
  hist.u = "redos" =>
    Content(activeProject(workspace))
      = hist.undoPre[Len(hist.undoPre) - hist.uRedone + 1]

\* Two undos that changed the content have both been redone.
RedoSymmetryReached ==
  /\ hist.u = "redos"
  /\ hist.uRedone = 2
  /\ Len(hist.undoPre) = 2
  /\ hist.undoPre[1] # hist.undoPre[2]

\* C3.  Commit: a handler that mutates the active project through
\* updateActiveProjectWithHistory, and does not switch project, appends to
\* undoStack exactly one snapshot per mutation, equal to the project as it
\* was immediately before that mutation, and leaves redoStack empty.
CommitPushesSnapshot ==
  [][/\ (lastOp'.kind = "commit" /\ ~lastOp'.switched) =>
          /\ undoStack' = Append(undoStack, activeProject(workspace))
          /\ redoStack' = << >>
     /\ (lastOp'.kind = "commit2" /\ ~lastOp'.switched) =>
          /\ Len(undoStack') = Len(undoStack) + 2
          /\ SubSeq(undoStack', 1, Len(undoStack) + 1)
               = Append(undoStack, activeProject(workspace))
          /\ undoStack'[Len(undoStack) + 2]
               = [activeProject(workspace) EXCEPT
                    !.name = projectDraft.name,
                    !.focalProblem = projectDraft.focalProblem,
                    !.author = projectDraft.author,
                    !.updatedAt = now + 1]
          /\ redoStack' = << >>]_vars

\* An import has overwritten the project over an earlier snapshot.
CommitPushesSnapshotReached ==
  /\ lastOp.name = "importOverwrite"
  /\ lastOp.kind = "commit"
  /\ Len(undoStack) = 2
  /\ undoStack[1] # undoStack[2]

\* C4.  Undo with a non-empty undoStack removes exactly its top snapshot,
\* pushes the current project onto redoStack, keeping what redoStack held,
\* and gives the active project the content of the removed snapshot; redo
\* does the same with the two stacks exchanged.
UndoRedoStep ==
  [][/\ lastOp'.kind = "undo" =>
          /\ Len(undoStack) > 0
          /\ undoStack' = SubSeq(undoStack, 1, Len(undoStack) - 1)
          /\ redoStack' = Append(redoStack, activeProject(workspace))
          /\ Content(activeProject(workspace'))
               = Content(undoStack[Len(undoStack)])
     /\ lastOp'.kind = "redo" =>
          /\ Len(redoStack) > 0
          /\ redoStack' = SubSeq(redoStack, 1, Len(redoStack) - 1)
          /\ undoStack' = Append(undoStack, activeProject(workspace))
          /\ Content(activeProject(workspace'))
               = Content(redoStack[Len(redoStack)])]_vars

\* An undo has left a snapshot to undo and two to redo.
UndoRedoStepReached ==
  /\ lastOp.kind = "undo"
  /\ Len(undoStack) > 0
  /\ Len(redoStack) = 2
  /\ redoStack[1] # redoStack[2]

\* C5.  Undo with an empty undoStack and redo with an empty redoStack change
\* nothing: the workspace, updatedAt of the active project included, and
\* both stacks stay as they were.
RefusedTimeTravel ==
  [][(\/ lastOp'.name = "undo" /\ Len(undoStack) = 0
      \/ lastOp'.name = "redo" /\ Len(redoStack) = 0) =>
       /\ workspace' = workspace
       /\ undoStack' = undoStack
       /\ redoStack' = redoStack]_vars

\* A redo was refused while there was something to undo.
RefusedTimeTravelReached ==
  /\ lastOp.name = "redo"
  /\ lastOp.kind = "none"
  /\ Len(undoStack) > 0

\* C6.  Project switch resets history: whenever a handler leaves another
\* project active, both stacks are empty once its effects have run.
SwitchResetsHistory ==
  [][activeProject(workspace').id # activeProject(workspace).id =>
       /\ undoStack' = << >>
       /\ redoStack' = << >>]_vars

\* The handler saved the draft, which pushed a snapshot, and then switched.
SwitchResetsHistoryReached ==
  /\ lastOp.switched
  /\ lastOp.kind = "commit"
  /\ lastOp.name \in {"selectProject", "createProject",
                      "createProjectVersion", "requestDeleteProject",
                      "importAsNew"}

\* C7.  Workspace invariant: the workspace holds at least one project, the
\* project ids are pairwise distinct and activeProjectId is the id of
\* exactly one project.
WorkspaceInvariant ==
  /\ Len(workspace.projects) >= 1
  /\ \A i, j \in DOMAIN workspace.projects :
       i # j => workspace.projects[i].id # workspace.projects[j].id
  /\ Cardinality({i \in DOMAIN workspace.projects :
                    workspace.projects[i].id = workspace.activeProjectId})
       = 1

\* C8.  Workspace floor: deleting the active project of a workspace with
\* exactly one project, by the store operation or by the handler once the
\* draft is clean or discarded, leaves the workspace and both stacks
\* unchanged.
WorkspaceFloor ==
  [][(/\ lastOp'.name \in {"deleteActiveProject", "requestDeleteProject"}
      /\ lastOp'.kind = "none"
      /\ Len(workspace.projects) = 1) =>
       /\ workspace' = workspace
       /\ undoStack' = undoStack
       /\ redoStack' = redoStack]_vars

\* The only project, with a snapshot on its undo stack, was asked to be
\* deleted.
WorkspaceFloorReached ==
  /\ lastOp.name = "deleteActiveProject"
  /\ ~lastOp.switched
  /\ Len(workspace.projects) = 1
  /\ Len(undoStack) > 0

\* C9.  deleteActiveProject on a workspace with two or more projects removes
\* exactly the active project, keeps the others unchanged and in order, and
\* activates the project that preceded the deleted one, or the new first one
\* when the deleted one was first.
DeleteRemovesActiveOnly ==
  [][(/\ lastOp'.name = "deleteActiveProject"
      /\ Len(workspace.projects) >= 2) =>
       /\ workspace'.projects = RemoveAt(workspace.projects,
                                         ActiveIndex(workspace))
       /\ workspace'.activeProjectId
            = workspace'.projects[Max2(1, ActiveIndex(workspace) - 1)].id]_vars

\* C10.  Move invariant: a drop leaves the number of cards and the multiset
\* of cards (id, content and colour) of the board unchanged, and every card
\* of the board, the moved one included, is on it exactly once afterwards.
MoveInvariant ==
  mv.phase = "moved" =>
    /\ Len(AllCards(mv.result)) = Len(AllCards(mv.rows))
    /\ \A card \in Range(AllCards(mv.rows)) \cup Range(AllCards(mv.result)) :
         /\ Cardinality({k \in DOMAIN AllCards(mv.result) :
                           AllCards(mv.result)[k] = card}) = 1
         /\ Cardinality({k \in DOMAIN AllCards(mv.result) :
                           AllCards(mv.result)[k].id = card.id}) = 1
         /\ card \in Range(AllCards(mv.rows))

\* A card was dropped after a card of another slot.
MoveInvariantReached ==
  /\ mv.phase = "moved"
  /\ mv.variant = "card"
  /\ mv.placement = "after"
  /\ mv.result # mv.rows
  /\ <<mv.payload.fromRowIndex, mv.payload.fromColumnId>>
       # <<mv.toRowIndex, mv.toColumnId>>

\* C11.  Move placement: when the card of the payload is in the source slot,
\* the drop takes it out of the source list and puts it in the destination
\* list: at the end when no target card is given or when the target is not
\* in the destination list, immediately before the target when the placement
\* is before, immediately after it when the placement is after.  Every other
\* slot is untouched and the other cards of both lists keep their order.
MovePlacement ==
  (/\ mv.phase = "moved"
   /\ mv.variant \in {"cell", "card", "staleTarget"}
   /\ InSourceSlot(mv.rows, mv.payload)) =>
    LET fr == mv.payload.fromRowIndex
        fc == mv.payload.fromColumnId
        source == mv.rows[fr].cards[fc]
        at == CHOOSE i \in DOMAIN source : source[i].id = mv.payload.cardId
        card == source[at]
        rest == SubSeq(source, 1, at - 1) \o SubSeq(source, at + 1, Len(source))
        same == <<fr, fc>> = <<mv.toRowIndex, mv.toColumnId>>
        destination ==
          IF same THEN rest ELSE mv.rows[mv.toRowIndex].cards[mv.toColumnId]
        found == {i \in DOMAIN destination :
                    mv.target.ok /\ destination[i].id = mv.target.value}
        landed == mv.result[mv.toRowIndex].cards[mv.toColumnId]
    IN /\ \A r \in DOMAIN mv.rows : \A c \in DOMAIN mv.rows[r].cards :
            /\ SelectSeq(mv.result[r].cards[c], LAMBDA x : x # card)
                 = SelectSeq(mv.rows[r].cards[c], LAMBDA x : x # card)
            /\ (<<r, c>> # <<mv.toRowIndex, mv.toColumnId>>
                  => card \notin Range(mv.result[r].cards[c]))
       /\ Len(landed) = Len(destination) + 1
       /\ found = {} => landed[Len(landed)] = card
       /\ \A i \in found :
            IF mv.placement = "before"
            THEN landed[i] = card /\ landed[i + 1] = destination[i]
            ELSE landed[i] = destination[i] /\ landed[i + 1] = card

\* A card was dropped before the second card of another slot and sits
\* between that slot's two cards.
MovePlacementReached ==
  /\ mv.phase = "moved"
  /\ mv.variant = "card"
  /\ mv.placement = "before"
  /\ InSourceSlot(mv.rows, mv.payload)
  /\ <<mv.payload.fromRowIndex, mv.payload.fromColumnId>>
       # <<mv.toRowIndex, mv.toColumnId>>
  /\ Len(mv.rows[mv.toRowIndex].cards[mv.toColumnId]) = 2
  /\ mv.rows[mv.toRowIndex].cards[mv.toColumnId][2].id = mv.target.value
  /\ mv.result[mv.toRowIndex].cards[mv.toColumnId][2].id = mv.payload.cardId

\* C12.  Own slot: a drop whose destination is the slot the card is in, on
\* the cell or on the card itself, leaves every card list as it was.
OwnSlotNoOp ==
  (/\ mv.phase = "moved"
   /\ InSourceSlot(mv.rows, mv.payload)
   /\ <<mv.payload.fromRowIndex, mv.payload.fromColumnId>>
        = <<mv.toRowIndex, mv.toColumnId>>
   /\ mv.target \in {None, Some(mv.payload.cardId)}) =>
    mv.result = mv.rows

\* C13.  Stale payload: a drop naming a card that is not in the source slot,
\* a source row or column that does not exist, or a destination row or
\* column that does not exist, returns the rows it was given.
StalePayloadNoOp ==
  (/\ mv.phase = "moved"
   /\ mv.variant \in {"cell", "card", "staleTarget", "stalePayload"}
   /\ \/ ~InSourceSlot(mv.rows, mv.payload)
      \/ ~IsSlot(mv.rows, mv.toRowIndex, mv.toColumnId)) =>
    mv.result = mv.rows

\* A card that is in its source slot was dropped on a column that does not
\* exist.
StalePayloadNoOpReached ==
  /\ mv.phase = "moved"
  /\ mv.variant = "stalePayload"
  /\ InSourceSlot(mv.rows, mv.payload)
  /\ mv.toRowIndex \in DOMAIN mv.rows
  /\ mv.toColumnId = StaleColumn
  /\ mv.result = mv.rows

\* C14.  Order round trip: for rows with pairwise distinct layer ids,
\* applying the order built from the rows gives the rows back.
OrderRoundTrip ==
  (/\ mv.phase = "ordered"
   /\ mv.source = "built"
   /\ \A i, j \in DOMAIN mv.rows :
        mv.rows[i].layerId = mv.rows[j].layerId => i = j) =>
    mv.result = mv.rows

\* C14, with distinct card ids.  Order round trip: for rows with pairwise
\* distinct layer ids whose cards have pairwise distinct ids within every
\* slot, applying the order built from the rows gives the rows back.
OrderRoundTripDistinctIds ==
  (/\ mv.phase = "ordered"
   /\ mv.source = "built"
   /\ \A i, j \in DOMAIN mv.rows :
        mv.rows[i].layerId = mv.rows[j].layerId => i = j
   /\ \A i \in DOMAIN mv.rows : \A c \in DOMAIN mv.rows[i].cards :
        \A p, q \in DOMAIN mv.rows[i].cards[c] :
          mv.rows[i].cards[c][p].id = mv.rows[i].cards[c][q].id => p = q) =>
    mv.result = mv.rows

\* The order built from rows with three cards of distinct ids in one slot,
\* and distinct layer ids, was applied to them.
OrderRoundTripDistinctIdsReached ==
  /\ mv.phase = "ordered"
  /\ mv.source = "built"
  /\ \A i, j \in DOMAIN mv.rows :
       mv.rows[i].layerId = mv.rows[j].layerId => i = j
  /\ Len(mv.rows[1].cards[<<"stakeholders">>]) = 3
  /\ mv.order[<<"informal">>][<<"stakeholders">>] = <<201, 202, 203>>
  /\ mv.result = mv.rows

\* C15.  Order application: with a well-shaped order map, every slot of the
\* result holds the cards the slot held, each once; the cards whose id is
\* in the slot's list come first, by the first occurrence of their id in the
\* list; the others follow in the order they had; nothing else of a row
\* changes.
OrderApplication ==
  (mv.phase = "ordered" /\ mv.source = "supplied") =>
    /\ DOMAIN mv.result = DOMAIN mv.rows
    /\ \A i \in DOMAIN mv.rows :
         /\ mv.result[i] = [mv.rows[i] EXCEPT !.cards = mv.result[i].cards]
         /\ DOMAIN mv.result[i].cards = DOMAIN mv.rows[i].cards
         /\ \A c \in DOMAIN mv.rows[i].cards :
              LET before == mv.rows[i].cards[c]
                  after == mv.result[i].cards[c]
                  list == IF /\ mv.rows[i].layerId \in DOMAIN mv.order
                             /\ c \in DOMAIN mv.order[mv.rows[i].layerId]
                          THEN mv.order[mv.rows[i].layerId][c]
                          ELSE << >>
                  listed(card) == \E k \in DOMAIN list : list[k] = card.id
                  first(card) ==
                    CHOOSE k \in DOMAIN list :
                      /\ list[k] = card.id
                      /\ \A k2 \in 1..(k - 1) : list[k2] # card.id
                  was(card) == CHOOSE k \in DOMAIN before : before[k] = card
              IN /\ Len(after) = Len(before)
                 /\ Range(after) = Range(before)
                 /\ \A p, q \in DOMAIN after :
                      p < q =>
                        /\ listed(after[q]) => listed(after[p])
                        /\ listed(after[q])
                             => first(after[p]) <= first(after[q])
                        /\ (~listed(after[p])
                              \/ (listed(after[q])
                                    /\ first(after[p]) = first(after[q])))
                             => was(after[p]) < was(after[q])

\* A list naming a foreign id, then the third and the first card of a slot
\* of three, was applied: the third card comes first, the second last.
OrderApplicationReached ==
  /\ mv.phase = "ordered"
  /\ mv.source = "supplied"
  /\ <<"informal">> \in DOMAIN mv.order
  /\ <<"stakeholders">> \in DOMAIN mv.order[<<"informal">>]
  /\ mv.order[<<"informal">>][<<"stakeholders">>] = <<StaleCardId, 203, 201>>
  /\ Len(mv.rows[1].cards[<<"stakeholders">>]) = 3
  /\ [k \in 1..3 |-> mv.rows[1].cards[<<"stakeholders">>][k].id]
       = <<201, 202, 203>>
  /\ [k \in 1..3 |-> mv.result[1].cards[<<"stakeholders">>][k].id]
       = <<203, 201, 202>>

\* C16.  Template invariant: normalizeTemplate returns null or a template
\* with at least one column and one layer, pairwise distinct column ids,
\* pairwise distinct layer ids and a non-empty label on every column and
\* layer; of the entries that yield the same id, the result holds the first
\* and only the first, in the order of the input.
TemplateInvariant ==
  (mv.phase = "normalized" /\ mv.result.ok) =>
    LET result == mv.result.value
        distinctIds(entries) ==
          \A i, j \in DOMAIN entries : entries[i].id = entries[j].id => i = j
        labelled(entries) ==
          \A i \in DOMAIN entries : entries[i].label # EmptyStr
        \* the entries of the input with the first of every id
        firsts(yielded) ==
          {k \in DOMAIN yielded :
             \A j \in 1..(k - 1) : yielded[j].id # yielded[k].id}
        firstKept(entries, yielded) ==
          /\ Len(entries) = Cardinality(firsts(yielded))
          /\ \A p \in DOMAIN entries :
               \E k \in firsts(yielded) :
                 /\ Cardinality({j \in firsts(yielded) : j <= k}) = p
                 /\ entries[p] = yielded[k]
    IN /\ Len(result.columns) >= 1
       /\ Len(result.layers) >= 1
       /\ distinctIds(result.columns)
       /\ distinctIds(result.layers)
       /\ labelled(result.columns)
       /\ labelled(result.layers)
       /\ firstKept(result.columns,
                    normalizeColumnsFrom(mv.template.value.columns, 1))
       /\ firstKept(result.layers,
                    normalizeLayersFrom(mv.template.value.layers, 1))

\* A candidate whose first and third column both yield the id "a" was
\* normalized: the first is kept, the third dropped.
TemplateInvariantReached ==
  /\ mv.phase = "normalized"
  /\ mv.template.ok
  /\ mv.template.value.columns
       = <<[label |-> <<"A">>], [label |-> <<" ", "B">>],
           [id |-> <<"a">>, label |-> <<"B">>]>>
  /\ mv.result.ok
  /\ mv.result.value.columns
       = <<[id |-> <<"a">>, label |-> <<"A">>],
           [id |-> <<"b">>, label |-> <<"B">>]>>

\* C17.  Template state invariant: the template of every project has at
\* least one column and one layer, pairwise distinct column ids and pairwise
\* distinct layer ids.
TemplateStateInvariant ==
  \A i \in DOMAIN workspace.projects :
    LET template == workspace.projects[i].template
    IN /\ Len(template.columns) >= 1
       /\ Len(template.layers) >= 1
       /\ \A j, k \in DOMAIN template.columns :
            template.columns[j].id = template.columns[k].id => j = k
       /\ \A j, k \in DOMAIN template.layers :
            template.layers[j].id = template.layers[k].id => j = k

\* A removal that left the active project with its last column was accepted.
TemplateStateInvariantReached ==
  /\ lastOp.name = "removeColumn"
  /\ lastOp.kind = "commit"
  /\ Len(activeProject(workspace).template.columns) = 1
  /\ Len(undoStack) >= 2

\* C18.  Last column, last layer: a request to remove the only column or the
\* only layer of the active project's template changes neither the
\* workspace (the project's template and rows included) nor the undo and
\* redo stacks.
RemoveLastRefused ==
  [][(\/ /\ lastOp'.name = "removeColumn"
         /\ Len(activeProject(workspace).template.columns) = 1
      \/ /\ lastOp'.name = "removeLayer"
         /\ Len(activeProject(workspace).template.layers) = 1)
       => /\ workspace' = workspace
          /\ undoStack' = undoStack
          /\ redoStack' = redoStack
          /\ storage' = storage]_vars

\* The removal of the only column of a project without cards was refused,
\* with a snapshot on the undo stack.
RemoveLastRefusedReached ==
  /\ lastOp.name = "removeColumn"
  /\ lastOp.kind = "none"
  /\ canChangeTemplate
  /\ Len(activeProject(workspace).template.columns) = 1
  /\ Len(undoStack) >= 1

\* C19.  Structure edit gate: in every settled state structure edit mode is
\* on only if the active project has no cards, and the mode goes from off to
\* on only by the toggle, taken while the active project has no cards.
StructureEditGate ==
  /\ [](isStructureEditMode => countProjectCards(activeProject(workspace)) = 0)
  /\ [][(~isStructureEditMode /\ isStructureEditMode')
          => /\ countProjectCards(activeProject(workspace)) = 0
             /\ lastOp'.name = "toggleStructureEditMode"]_vars

\* Structure edit mode was switched on after a card was deleted: an undo
\* would bring the card back.
StructureEditGateReached ==
  /\ isStructureEditMode
  /\ lastOp.name = "toggleStructureEditMode"
  /\ Len(undoStack) >= 1
  /\ countProjectCards(undoStack[Len(undoStack)]) >= 1

\* C20.  No structural mutation while cards exist: a structural edit request
\* made while the active project holds a card leaves the workspace (the
\* project's template, templateId and rows included) and the undo and redo
\* stacks as they were; no structural edit request changes the number of
\* cards of the active project.
StructureFrozenWithCards ==
  [][lastOp'.name \in StructuralOps
       => /\ countProjectCards(activeProject(workspace'))
               = countProjectCards(activeProject(workspace))
          /\ \/ canChangeTemplate
             \/ /\ workspace' = workspace
                /\ undoStack' = undoStack
                /\ redoStack' = redoStack]_vars

\* The addition of a column was refused for a project holding a card.
StructureFrozenWithCardsReached ==
  /\ lastOp.name = "addColumn"
  /\ lastOp.kind = "none"
  /\ ~canChangeTemplate

\* C21.  Fresh board: after an accepted structural change the rows of the
\* active project are one row per layer of its new template, in the order of
\* the template, each with the label and the description of its layer and
\* with an empty card list for exactly the column ids of the template; the
\* templateId is the id of the template.
FreshBoardAfterChange ==
  [][(lastOp'.name \in StructuralOps /\ lastOp'.kind = "commit") =>
       LET project == activeProject(workspace')
           template == project.template
       IN /\ project.templateId = template.id
          /\ DOMAIN project.rows = DOMAIN template.layers
          /\ \A i \in DOMAIN template.layers :
               /\ project.rows[i].layerId = template.layers[i].id
               /\ project.rows[i].layerLabel = template.layers[i].label
               /\ project.rows[i].layerDescription
                    = template.layers[i].description
               /\ DOMAIN project.rows[i].cards
                    = {template.columns[j].id : j \in DOMAIN template.columns}
               /\ \A c \in DOMAIN project.rows[i].cards :
                    project.rows[i].cards[c] = << >>]_vars

\* A layer was added to a template of one column and one layer: the board
\* has two rows.
FreshBoardAfterChangeReached ==
  /\ lastOp.name = "addLayer"
  /\ lastOp.kind = "commit"
  /\ Len(activeProject(workspace).template.layers) = 2
  /\ Len(activeProject(workspace).rows) = 2

\* The cards a persisted row carries for a column: under cards in the
\* template-aware layout, under the column's own name in the legacy layout.
CarriedCards(row, columnId) ==
  IF "cards" \in DOMAIN row /\ columnId \in DOMAIN row.cards
  THEN Some(row.cards[columnId])
  ELSE IF Len(columnId) = 1 /\ columnId[1] \in DOMAIN row
       THEN Some(row[columnId[1]])
       ELSE None

\* C23.  parseBoardRows(value, template) returns rows only when value is a
\* sequence as long as the template's layers, every element's layerId is a
\* layer id of the template and every column of the template carries an
\* array of well-formed cards; no returned row has a layerId that is not a
\* layer of the template, the classic template included.
ParsedRowsFitTemplate ==
  (mv.phase = "parsed" /\ mv.result.ok) =>
    /\ mv.value.ok
    /\ Len(mv.value.value) = Len(mv.template.layers)
    /\ \A i \in DOMAIN mv.value.value :
         LET row == mv.value.value[i]
         IN /\ "layerId" \in DOMAIN row
            /\ row.layerId \in LayerIds(mv.template)
            /\ \A c \in ColumnIds(mv.template) :
                 /\ CarriedCards(row, c).ok
                 /\ \A k \in DOMAIN CarriedCards(row, c).value :
                      isBoardCard(CarriedCards(row, c).value[k])
    /\ \A i \in DOMAIN mv.result.value :
         mv.result.value[i].layerId \in LayerIds(mv.template)

\* The card without its colour when the colour is none of POST_IT_COLORS.
Uncoloured(card) ==
  IF "color" \in DOMAIN card /\ ~isPostItColor(card.color)
  THEN [f \in DOMAIN card \ {"color"} |-> card[f]]
  ELSE card

UncolouredCards(cards) == [k \in DOMAIN cards |-> Uncoloured(cards[k])]

\* The persisted row with Uncoloured applied to each of its cards, in
\* either layout.
UncolouredRow(row) ==
  [f \in DOMAIN row |->
     IF f = "cards"
     THEN [c \in DOMAIN row.cards |-> UncolouredCards(row.cards[c])]
     ELSE IF f \in {LEGACY_COLUMNS[k] : k \in DOMAIN LEGACY_COLUMNS}
          THEN UncolouredCards(row[f])
          ELSE row[f]]

\* C24.  Card colour defaulting: a card whose color is missing or is none of
\* the six colours is accepted by parseBoardRows and comes out yellow; a row
\* set that is usable once such colours are taken off is usable with them.
CardColourDefaulting ==
  (mv.phase = "parsed" /\ mv.value.ok) =>
    /\ parseBoardRows(
         Some([i \in DOMAIN mv.value.value |->
                 UncolouredRow(mv.value.value[i])]),
         mv.template).ok => mv.result.ok
    /\ mv.result.ok =>
         \A i \in DOMAIN mv.result.value :
           \A c \in DOMAIN mv.result.value[i].cards :
             \A k \in DOMAIN mv.result.value[i].cards[c] :
               LET source == CarriedCards(mv.value.value[i], c).value[k]
               IN mv.result.value[i].cards[c][k].color
                    = IF "color" \in DOMAIN source
                         /\ isPostItColor(source.color)
                      THEN source.color
                      ELSE DEFAULT_POST_IT_COLOR

\* C22.  Row invariant: in every reachable state, every row of the active
\* project has the layerId of a layer of the project's template, and its
\* cards have an entry for every column id of that template.
RowInvariant ==
  LET project == activeProject(workspace)
  IN \A i \in DOMAIN project.rows :
       /\ project.rows[i].layerId \in LayerIds(project.template)
       /\ ColumnIds(project.template) \subseteq DOMAIN project.rows[i].cards

\* C26.  Version: in every reachable state the version of every project of
\* the workspace is an integer and at least 1.
VersionPositive ==
  \A i \in DOMAIN workspace.projects :
    /\ workspace.projects[i].version \in Int
    /\ workspace.projects[i].version >= 1
    /\ "versionFraction" \notin DOMAIN workspace.projects[i]

\* C25.  Idempotence of normalisation: for every project accepted by
\* isProject, normalizing the normalized project gives the normalized
\* project back, in every field.
NormalizeIdempotent == mv.phase = "twice" => mv.twice = mv.once

\* C27.  createNewVersion appends one project and makes it active; the new
\* project has an id no project had, the version of the source plus one and
\* the name, author, focalProblem, template and rows of the source; the
\* projects that were there are unchanged.
NewVersionCopiesSource ==
  [][(lastOp'.name = "createProjectVersion" /\ lastOp'.kind = "none"
        /\ workspace' # workspace) =>
       LET source == activeProject(workspace)
           copy == workspace'.projects[Len(workspace'.projects)]
       IN /\ Len(workspace'.projects) = Len(workspace.projects) + 1
          /\ \A i \in DOMAIN workspace.projects :
               workspace'.projects[i] = workspace.projects[i]
          /\ workspace'.activeProjectId = copy.id
          /\ \A i \in DOMAIN workspace.projects :
               workspace.projects[i].id # copy.id
          /\ copy.version = source.version + 1
          /\ copy.name = source.name
          /\ copy.author = source.author
          /\ copy.focalProblem = source.focalProblem
          /\ copy.templateId = source.templateId
          /\ copy.template = source.template
          /\ copy.rows = source.rows]_vars

\* The workspace key holds nothing loadWorkspace can use: no JSON, no
\* object, no activeProjectId or project list, an empty list, or an entry
\* that is no project.
WorkspaceKeyUnusable(content) ==
  \/ content.kind = "malformed"
  \/ /\ content.kind = "json"
     /\ \/ ~content.value.ok
        \/ ~({"activeProjectId", "projects"}
                \subseteq DOMAIN content.value.value)
        \/ Len(content.value.value.projects) = 0
        \/ \E i \in DOMAIN content.value.value.projects :
             ~isProject(content.value.value.projects[i])

\* The legacy key holds no JSON, or JSON without a usable row array.
LegacyKeyUnusable(content) ==
  \/ content.kind = "malformed"
  \/ content.kind = "json" /\ ~legacyRowsOf(content.value).ok

\* C28.  Load never fails: whatever the two storage keys hold, loadWorkspace
\* returns a workspace with at least one project whose activeProjectId names
\* one of them; when what is stored is unusable, the workspace has exactly
\* one project, on the classic template and without cards.
LoadNeverFails ==
  mv.phase = "loaded" =>
    /\ Len(mv.loaded.projects) >= 1
    /\ \E i \in DOMAIN mv.loaded.projects :
         mv.loaded.projects[i].id = mv.loaded.activeProjectId
    /\ (IF mv.stored.workspace.kind = "absent"
        THEN \/ mv.stored.legacy.kind = "absent"
             \/ LegacyKeyUnusable(mv.stored.legacy)
        ELSE WorkspaceKeyUnusable(mv.stored.workspace)) =>
         /\ Len(mv.loaded.projects) = 1
         /\ mv.loaded.projects[1].template = CLASSIC_BOARD_TEMPLATE
         /\ mv.loaded.projects[1].rows
              = createInitialBoard(CLASSIC_BOARD_TEMPLATE)

\* A workspace whose activeProjectId names none of its two projects has been
\* loaded: both projects are there and the first is active.
LoadNeverFailsReached ==
  /\ mv.phase = "loaded"
  /\ mv.stored.workspace.kind = "json"
  /\ mv.stored.workspace.value.ok
  /\ "projects" \in DOMAIN mv.stored.workspace.value.value
  /\ mv.stored.workspace.value.value.activeProjectId = 999
  /\ Len(mv.stored.workspace.value.value.projects) = 2
  /\ Len(mv.loaded.projects) = 2
  /\ mv.loaded.activeProjectId = mv.loaded.projects[1].id

\* C29.  Persistence follows every change: once a handler that changed the
\* workspace (a store operation, an undo or a redo) has settled, the
\* workspace key holds the serialization of the workspace in memory.
PersistenceFollowsChange ==
  [][workspace' # workspace =>
       storage'.workspace = StorageJson(Some(workspace'))]_vars

\* An undo has changed the workspace and the workspace key holds the
\* workspace it left.
PersistenceFollowsChangeReached ==
  /\ lastOp.name = "undo"
  /\ lastOp.kind = "undo"
  /\ Len(redoStack) > 0
  /\ storage.workspace = StorageJson(Some(workspace))
  /\ storage.workspace # Started[StoredTwoProjects].storage.workspace

\* The workspace after the export of the first project of the workspace has
\* been imported as a new project, with no draft to resolve; None when the
\* import refuses the document.
ReimportedAsNew ==
  With(ExportPayload(workspace.projects[1]), LAMBDA file :
  With(importedTemplateOf(file, idCounter + 1), LAMBDA importedTemplate :
  With(importedRowsOf(file, importedTemplate), LAMBDA rows :
    IF ~rows.ok THEN None
    ELSE Some(importProjectAsNew(
                workspace,
                importAsNewPayload(file, importedTemplate, rows.value),
                idCounter + 2, now + 1)))))

\* C30.  Export/import round trip: when the export of a project, on the
\* classic template or on a custom one, is imported as a new project, the
\* new project is active and its template's columns and layers and the
\* cards of its rows (id, content, color, slot and order) are those of the
\* exported project.
ExportImportRoundTrip ==
  [][(lastOp'.name = "importAsNew" /\ lastOp'.kind = "none"
        /\ ReimportedAsNew.ok /\ workspace' = ReimportedAsNew.value) =>
       LET original == workspace.projects[1]
           copy == workspace'.projects[Len(workspace'.projects)]
       IN /\ Len(workspace'.projects) = Len(workspace.projects) + 1
          /\ workspace'.activeProjectId = copy.id
          /\ copy.template.columns = original.template.columns
          /\ copy.template.layers = original.template.layers
          /\ DOMAIN copy.rows = DOMAIN original.rows
          /\ \A i \in DOMAIN original.rows :
               /\ copy.rows[i].layerId = original.rows[i].layerId
               /\ copy.rows[i].cards = original.rows[i].cards]_vars

UpdateTouchesActiveOnly ==
  mv.phase = "updated" =>
    LET activeProjectIndex == ActiveIndex(mv.ws)
    IN /\ mv.result.activeProjectId = mv.ws.activeProjectId
       /\ Len(mv.result.projects) = Len(mv.ws.projects)
       /\ \A index \in DOMAIN mv.ws.projects :
            index # activeProjectIndex =>
              mv.result.projects[index] = mv.ws.projects[index]
       /\ activeProjectIndex = 0 => mv.result = mv.ws
       /\ activeProjectIndex # 0 =>
            mv.result.projects[activeProjectIndex] =
              [applyUpdater(mv.updater, mv.ws.projects[activeProjectIndex])
                 EXCEPT !.updatedAt = mv.time]

\* An update wrote the second project of a list in which a later project
\* carries the same id.
UpdateTouchesActiveOnlyReached ==
  /\ mv.phase = "updated"
  /\ ActiveIndex(mv.ws) = 2
  /\ \E index \in DOMAIN mv.ws.projects :
       /\ index > 2
       /\ mv.ws.projects[index].id = mv.ws.activeProjectId
  /\ mv.result # mv.ws

CardPlaces(project) ==
  UNION {UNION {{<<rowIndex, columnId, index>> :
                   index \in DOMAIN project.rows[rowIndex].cards[columnId]} :
                  columnId \in DOMAIN project.rows[rowIndex].cards} :
           rowIndex \in DOMAIN project.rows}

\* C34.  Card id uniqueness: from a project whose card ids are pairwise
\* distinct, after any sequence of add card, edit, recolour, delete, move,
\* reset board, undo and redo, two different places of the active project
\* never hold cards of one id: the ids stay pairwise distinct and every card
\* is held by exactly one slot.
CardIdsUnique ==
  LET project == activeProject(workspace)
  IN \A a, b \in CardPlaces(project) :
       a # b => project.rows[a[1]].cards[a[2]][a[3]].id
                  # project.rows[b[1]].cards[b[2]][b[3]].id

\* A card was dropped on the other card of a project that had been changed
\* twice before.
CardIdsUniqueReached ==
  /\ lastOp.name = "cardDrop"
  /\ countProjectCards(activeProject(workspace)) = 2
  /\ Len(undoStack) >= 3

\* C35.  A drop that leaves the rows of the active project as they were (the
\* card is not in the slot the payload names, or a slot is missing) is not
\* recorded in history: undoStack and redoStack are unchanged.
StaleDropUnrecorded ==
  [][(/\ lastOp'.name \in {"cellDrop", "cardDrop"}
      /\ activeProject(workspace').rows = activeProject(workspace).rows) =>
       /\ undoStack' = undoStack
       /\ redoStack' = redoStack]_vars

\* The ids of the projects of ws, in list order.
ProjectIds(ws) == [index \in DOMAIN ws.projects |-> ws.projects[index].id]

\* C36.  History is scoped to the active project: in every state a handler
\* leaves, each snapshot on undoStack and on redoStack has the id of the
\* active project; an undo or a redo keeps the id of the active project and
\* the ids of all projects, so it neither puts the snapshot of another
\* project in place of the active one nor makes two projects share an id.
HistoryScoped ==
  /\ [](\A index \in DOMAIN undoStack :
          undoStack[index].id = activeProject(workspace).id)
  /\ [](\A index \in DOMAIN redoStack :
          redoStack[index].id = activeProject(workspace).id)
  /\ [][lastOp'.kind \in {"undo", "redo"} =>
          /\ activeProject(workspace').id = activeProject(workspace).id
          /\ workspace'.activeProjectId = workspace.activeProjectId
          /\ ProjectIds(workspace') = ProjectIds(workspace)]_vars

\* A change of the second project was undone while another project is in
\* the list, after a project switch.
HistoryScopedReached ==
  /\ lastOp.kind = "undo"
  /\ Len(redoStack) > 0
  /\ Len(workspace.projects) > 1
  /\ ActiveIndex(workspace) > 1

\* C37.  Renaming a column or a layer title to a non-empty label, on a
\* project with zero cards, yields a template with as many columns and as
\* many layers as before: the renamed entry is at its position with the new
\* label, and every other label is the one it was.
RenameKeepsStructure ==
  [][LET before == activeProject(workspace).template
         after == activeProject(workspace').template
     IN /\ (lastOp'.name = "renameColumn" /\ lastOp'.kind = "commit") =>
             /\ LayerDefinitions(after) = LayerDefinitions(before)
             /\ \E i \in DOMAIN before.columns, label \in RenameLabels :
                  /\ Trim(label) # EmptyStr
                  /\ ColumnLabels(after) =
                       [ColumnLabels(before) EXCEPT ![i] = Trim(label)]
        /\ (lastOp'.name = "renameLayer" /\ lastOp'.kind = "commit") =>
             /\ ColumnLabels(after) = ColumnLabels(before)
             /\ \E i \in DOMAIN before.layers, value \in RenameLabels :
                  \/ /\ Trim(value) # EmptyStr
                     /\ LayerDefinitions(after) =
                          [LayerDefinitions(before) EXCEPT
                             ![i].label = Trim(value)]
                  \/ LayerDefinitions(after) =
                       [LayerDefinitions(before) EXCEPT
                          ![i].description = Trim(value)]]_vars

\* C38.  Add column makes the template one column longer and add layer one
\* layer longer, after any structural edits before it on a project with
\* zero cards; the columns and layers there were keep their labels and
\* their order.
AddGrowsByOne ==
  [][LET before == activeProject(workspace).template
         after == activeProject(workspace').template
     IN /\ (lastOp'.name = "addColumn" /\ canChangeTemplate) =>
             /\ Len(after.columns) = Len(before.columns) + 1
             /\ SubSeq(ColumnLabels(after), 1, Len(before.columns))
                  = ColumnLabels(before)
             /\ LayerDefinitions(after) = LayerDefinitions(before)
        /\ (lastOp'.name = "addLayer" /\ canChangeTemplate) =>
             /\ Len(after.layers) = Len(before.layers) + 1
             /\ SubSeq(LayerDefinitions(after), 1, Len(before.layers))
                  = LayerDefinitions(before)
             /\ ColumnLabels(after) = ColumnLabels(before)]_vars

\* The cards of a project, each with its place: row index, column id and
\* index in the list of the slot.
PlacedCards(project) ==
  {<<place, project.rows[place[1]].cards[place[2]][place[3]]>> :
     place \in CardPlaces(project)}

\* C39.  Save/load round trip: loading what saveWorkspace writes for the
\* workspace gives the projects of the workspace, in their order, with the
\* same activeProjectId, and every project has the same cards in the same
\* slots and in the same order.
SaveLoadKeepsCards ==
  LET loaded == loadWorkspace(saveWorkspace(storage, workspace),
                              idCounter + 1, now)
  IN /\ loaded.activeProjectId = workspace.activeProjectId
     /\ ProjectIds(loaded) = ProjectIds(workspace)
     /\ \A index \in DOMAIN workspace.projects :
          PlacedCards(loaded.projects[index])
            = PlacedCards(workspace.projects[index])

\* C40.  Every handler suspended on a dialog is resumed exactly once: the
\* promise of each openDialog call is resolved by one closeDialog, never by
\* two, also when a dialog is opened while another is shown, and no promise
\* stays unresolved forever.
DialogResumedOnce ==
  /\ [](\A k \in DOMAIN mv.calls : Len(mv.calls[k].resolved) <= 1)
  /\ \A k \in 1..MaxDialogCalls :
       (k \in DOMAIN mv.calls)
         ~> (k \in DOMAIN mv.calls /\ Len(mv.calls[k].resolved) = 1)

====
